---------------------------- MODULE Spec2Model ----------------------------
(***************************************************************************)
(* Dynamic path detection engine of the storage component: the prefix     *)
(* trie with per-prefix collapse thresholds (PathAnalyzer), its two-pass  *)
(* read-then-insert AnalyzePath, and the AnalyzeOpens driver.             *)
(*                                                                         *)
(* A Go string that holds a path is modelled by the sequence of its       *)
(* '/'-separated components, i.e. by strings.Split(s, "/"):               *)
(*   "/a/b" is <<"", "a", "b">>,  "/" is <<"", "">>,  "" is <<"">>.       *)
(* The correspondence is one to one, so string equality is sequence       *)
(* equality and "/" + strings.Join(segs, "/") is <<"">> \o segs.          *)
(*                                                                         *)
(* A *TrieNode is modelled by the value of the subtree it points to:      *)
(*   [Count |-> Nat, Config |-> <<>> or <<CollapseConfig>>,               *)
(*    Children |-> function from child keys to nodes].                    *)
(* A pointer into a trie that is being mutated is a position: the         *)
(* sequence of child keys that leads from the root to the node.           *)
(***************************************************************************)
EXTENDS Integers, Sequences, FiniteSets, TLC

VARIABLES
    pm,        \* the PathAnalyzer: [root, identRoots, configs, defaultCfg]
    ncalls,    \* the number of calls made on the analyzer
    last,      \* the last AddPath or AnalyzePath call: [op, path, id, result]
    seen,      \* the AddPath and AnalyzePath calls made: a set of [op, path, id]
    opens,     \* the last AnalyzeOpens call: [called, in, sbom, out, err]
    shared,    \* analyzer.go's package variable DefaultCollapseConfig
    matchers,  \* the analyzers analyzer.go's constructors returned, by name
    endpoints, \* the last AnalyzeEndpoints or MergeDuplicateEndpoints call:
               \* [called, op, in, out]
    execs,     \* the last AnalyzeExecs call: [called, in, threshold, analyzer,
               \* out], analyzer the ArgAnalyzer after the first pass
    compared,  \* the last CompareDynamic call: [called, dynamicPath,
               \* regularPath, result]
    marked     \* the [path, id] for which AnalyzePath has returned a result
               \* with a ⋯ or a * segment

vars ==
    << pm, ncalls, last, seen, opens, shared, matchers, endpoints, execs,
       compared, marked >>

----------------------------------------------------------------------------
(* Identifier constants                                                    *)

DynamicIdentifier == "⋯"

WildcardIdentifier == "*"

----------------------------------------------------------------------------
(* Strings                                                                 *)

\* "/" + strings.Join(segs, "/")
Abs(segs) == <<"">> \o segs

RECURSIVE TrimLeft(_)
TrimLeft(p) ==
    IF Len(p) > 1 /\ Head(p) = "" THEN TrimLeft(Tail(p)) ELSE p

RECURSIVE TrimRight(_)
TrimRight(p) ==
    IF Len(p) > 1 /\ p[Len(p)] = "" THEN TrimRight(SubSeq(p, 1, Len(p) - 1)) ELSE p

\* strings.Trim(p, "/"): the leading and the trailing slashes are removed
Trim(p) == TrimRight(TrimLeft(p))

\* splitPath: the non-empty components of strings.Trim(path, "/")
splitPath(path) == SelectSeq(Trim(path), LAMBDA c : c # "")

----------------------------------------------------------------------------
(* Trie nodes                                                              *)

EmptyChildren == [k \in {} |-> 0]

NewTrieNode == [Count |-> 0, Config |-> <<>>, Children |-> EmptyChildren]

\* node.Count = count
SetCount(node, count) ==
    [Count |-> count, Config |-> node.Config, Children |-> node.Children]

\* node.Config = config
SetConfig(node, config) ==
    [Count |-> node.Count, Config |-> config, Children |-> node.Children]

\* node.Children = children
SetChildren(node, children) ==
    [Count |-> node.Count, Config |-> node.Config, Children |-> children]

HasChild(node, key) == key \in DOMAIN node.Children

Child(node, key) == node.Children[key]

\* node.Children[key] = child
PutChild(node, key, child) ==
    SetChildren(node,
        [k \in DOMAIN node.Children \cup {key} |->
            IF k = key THEN child ELSE node.Children[k]])

\* node.Children[key].Count++
IncChild(node, key) ==
    PutChild(node, key, SetCount(Child(node, key), Child(node, key).Count + 1))

\* the node a pointer at position pos of the trie t points to
RECURSIVE NodeAt(_, _)
NodeAt(t, pos) ==
    IF pos = <<>> THEN t ELSE NodeAt(Child(t, Head(pos)), Tail(pos))

\* the trie t after the node at position pos has been overwritten with n
RECURSIVE SetAt(_, _, _)
SetAt(t, pos, n) ==
    IF pos = <<>> THEN n
    ELSE PutChild(t, Head(pos), SetAt(Child(t, Head(pos)), Tail(pos), n))

\* the orders in which a range loop may visit the keys of a Go map
RECURSIVE MapOrders(_)
MapOrders(S) ==
    IF S = {} THEN {<<>>}
    ELSE UNION {{<<k>> \o o : o \in MapOrders(S \ {k})} : k \in S}

----------------------------------------------------------------------------
(* Collapse configuration                                                  *)

EtcThreshold == 50

OptThreshold == 5

VarRunThreshold == 3

AppThreshold == 1

DefaultThreshold == 5

CollapseConfigs ==
    << [Prefix |-> <<"", "etc">>, Threshold |-> EtcThreshold],
       [Prefix |-> <<"", "opt">>, Threshold |-> OptThreshold],
       [Prefix |-> <<"", "var", "run">>, Threshold |-> VarRunThreshold],
       [Prefix |-> <<"", "app">>, Threshold |-> AppThreshold] >>

\* the threshold analyzer.go's package variable DefaultCollapseConfig starts with
SharedDefaultThreshold == 50

DefaultCollapseConfig == [Prefix |-> <<"", "">>, Threshold |-> DefaultThreshold]

\* the walk of addConfigToNode along the segments of the prefix
RECURSIVE addConfigWalk(_, _, _)
addConfigWalk(node, segments, config) ==
    IF segments = <<>> THEN SetConfig(node, <<config>>)
    ELSE LET segment == Head(segments)
             child == IF HasChild(node, segment) THEN Child(node, segment)
                      ELSE NewTrieNode
         IN  PutChild(node, segment, addConfigWalk(child, Tail(segments), config))

addConfigToNode(root, config) ==
    LET segments == Trim(config.Prefix)
    IN  IF segments[1] = "" THEN SetConfig(root, <<config>>)
        ELSE addConfigWalk(root, segments, config)

RECURSIVE addConfigsFrom(_, _, _)
addConfigsFrom(node, configs, i) ==
    IF i > Len(configs) THEN node
    ELSE addConfigsFrom(addConfigToNode(node, configs[i]), configs, i + 1)

applyConfigsToNode(node, defaultCfg, configs) ==
    addConfigsFrom(addConfigToNode(node, defaultCfg), configs, 1)

newAnalyzer(defaultCfg, configs) ==
    [ root       |-> applyConfigsToNode(NewTrieNode, defaultCfg, configs),
      identRoots |-> EmptyChildren,
      configs    |-> configs,
      defaultCfg |-> defaultCfg ]

NewPathAnalyzer(threshold) ==
    newAnalyzer([Prefix |-> <<"", "">>, Threshold |-> threshold], CollapseConfigs)

NewPathAnalyzerWithConfigs(configs) == newAnalyzer(DefaultCollapseConfig, configs)

\* getRoot: the identifier's trie, created empty on first use
\* pm.identRoots[identifier] = root
SetIdentRoot(a, identifier, root) ==
    [ root       |-> a.root,
      identRoots |-> [i \in DOMAIN a.identRoots \cup {identifier} |->
                         IF i = identifier THEN root ELSE a.identRoots[i]],
      configs    |-> a.configs,
      defaultCfg |-> a.defaultCfg ]

getRoot(a, identifier) ==
    IF identifier \in DOMAIN a.identRoots THEN a
    ELSE SetIdentRoot(a, identifier, NewTrieNode)

----------------------------------------------------------------------------
(* Collapse of the children of a node                                      *)

RECURSIVE shallowChildrenCopy(_, _)
shallowChildrenCopy(src, dst) ==
    SetChildren(dst,
        [key \in DOMAIN dst.Children \cup DOMAIN src.Children |->
            IF key \notin DOMAIN dst.Children THEN src.Children[key]
            ELSE IF key \notin DOMAIN src.Children THEN dst.Children[key]
            ELSE shallowChildrenCopy(src.Children[key],
                    SetCount(dst.Children[key],
                        dst.Children[key].Count + src.Children[key].Count))])

\* the loop over node.Children that fills the new dynamic node, the children
\* visited in the given order
RECURSIVE mergeInto(_, _, _)
mergeInto(node, dynamicNode, order) ==
    IF order = <<>> THEN dynamicNode
    ELSE LET child == node.Children[Head(order)]
         IN  mergeInto(node,
                 shallowChildrenCopy(child,
                     SetCount(dynamicNode, dynamicNode.Count + child.Count)),
                 Tail(order))

createDynamicNode(node, order) ==
    SetChildren(node,
        [k \in {DynamicIdentifier} |-> mergeInto(node, NewTrieNode, order)])

RECURSIVE SumCounts(_, _)
SumCounts(node, keys) ==
    IF keys = {} THEN 0
    ELSE LET k == CHOOSE x \in keys : TRUE
         IN  node.Children[k].Count + SumCounts(node, keys \ {k})

createWildcardNode(node) ==
    SetChildren(node,
        [k \in {WildcardIdentifier} |->
            SetCount(NewTrieNode, SumCounts(node, DOMAIN node.Children))])

----------------------------------------------------------------------------
(* Insertion: PathAnalyzer.addPathToRoot                                   *)

\* "Advance config after navigation": configNode moves to its child keyed by the
\* segment when it has one, and currentConfig to that child's Config when set.
\* cfgTrie is the trie configNode points into, cpos the position of configNode.
advanceConfig(cfgTrie, cpos, currentConfig, segment) ==
    LET configNode == NodeAt(cfgTrie, cpos)
    IN  IF HasChild(configNode, segment)
        THEN [ cpos |-> Append(cpos, segment),
               cfg  |-> IF Child(configNode, segment).Config # <<>>
                        THEN Child(configNode, segment).Config[1]
                        ELSE currentConfig ]
        ELSE [cpos |-> cpos, cfg |-> currentConfig]

\* immediateWildcard with the threshold compared to 0: no threshold creates a
\* wildcard at once
immediateWildcardAtZero(currentConfig, parent) ==
    currentConfig.Threshold = 0 /\ ~HasChild(parent, WildcardIdentifier)

\* "threshold of 1 immediately creates a wildcard"
immediateWildcard(currentConfig, parent) ==
    currentConfig.Threshold = 1 /\ ~HasChild(parent, WildcardIdentifier)

\* exceedsThreshold with >= for >: the children collapse one child early
reachesThreshold(currentConfig, parent) ==
    /\ Cardinality(DOMAIN parent.Children) >= currentConfig.Threshold
    /\ ~HasChild(parent, DynamicIdentifier)

\* "if unique children > threshold, collapse to dynamic node"
exceedsThreshold(currentConfig, parent) ==
    /\ Cardinality(DOMAIN parent.Children) > currentConfig.Threshold
    /\ ~HasChild(parent, DynamicIdentifier)

\* The loop over the segments.  trie is the trie the path is inserted into and
\* ppos the position of parent in it; configNode is at position cpos of pm.root,
\* which is trie itself when the path is inserted into pm.root (onRoot) and
\* cfgRoot otherwise.  The value is the set of tries the loop may leave, one for
\* each order in which createDynamicNode may visit the children it merges.
RECURSIVE addPathLoop(_, _, _, _, _, _, _)
addPathLoop(trie, cfgRoot, onRoot, ppos, cpos, currentConfig, segments) ==
    IF segments = <<>> THEN {trie}
    ELSE
    LET segment == Head(segments)
        parent  == NodeAt(trie, ppos)
        \* the rest of the loop after parent has become newParent and the walk
        \* has navigated to its child keyed by key
        Continue(newParent, key) ==
            LET t2  == SetAt(trie, ppos, newParent)
                adv == advanceConfig(IF onRoot THEN t2 ELSE cfgRoot,
                                     cpos, currentConfig, segment)
            IN  addPathLoop(t2, cfgRoot, onRoot, Append(ppos, key),
                            adv.cpos, adv.cfg, Tail(segments))
    IN
    IF HasChild(parent, WildcardIdentifier)
    THEN \* a wildcard consumes the rest of the path
         {SetAt(trie, ppos, IncChild(parent, WildcardIdentifier))}
    ELSE IF HasChild(parent, DynamicIdentifier)
    THEN \* a dynamic node absorbs the segment
         Continue(IncChild(parent, DynamicIdentifier), DynamicIdentifier)
    ELSE IF segment = DynamicIdentifier
    THEN \* a dynamic segment of the input merges the siblings into a new node
         UNION { Continue(IncChild(merged, DynamicIdentifier), DynamicIdentifier)
                 : merged \in
                     IF ~HasChild(parent, DynamicIdentifier)
                     THEN {createDynamicNode(parent, order) :
                              order \in MapOrders(DOMAIN parent.Children)}
                     ELSE {parent} }
    ELSE
    LET added == IF HasChild(parent, segment) THEN parent
                 ELSE PutChild(parent, segment, NewTrieNode)
        counted == IncChild(added, segment)
    IN  IF immediateWildcard(currentConfig, counted)
        THEN \* a threshold of 1 immediately creates a wildcard
             {SetAt(trie, ppos,
                    IncChild(createWildcardNode(counted), WildcardIdentifier))}
        ELSE
        UNION { IF HasChild(collapsed, DynamicIdentifier)
                THEN Continue(collapsed, DynamicIdentifier)
                ELSE IF HasChild(collapsed, segment)
                THEN Continue(collapsed, segment)
                ELSE {SetAt(trie, ppos, collapsed)}
                : collapsed \in
                    IF exceedsThreshold(currentConfig, counted)
                    THEN {createDynamicNode(counted, order) :
                             order \in MapOrders(DOMAIN counted.Children)}
                    ELSE {counted} }

\* addPathToRoot(root, path) of the analyzer a: the tries root may be left as
addPathToRoot(a, root, onRoot, path) ==
    LET segments == splitPath(path)
    IN  IF Len(segments) = 0 THEN {root}
        ELSE addPathLoop(root, a.root, onRoot, <<>>, <<>>,
                         IF a.root.Config # <<>> THEN a.root.Config[1]
                         ELSE a.defaultCfg,
                         segments)

\* AddPath(path): the analyzers the call may leave
AddPath(a, path) ==
    { [root |-> r, identRoots |-> a.identRoots, configs |-> a.configs,
       defaultCfg |-> a.defaultCfg]
      : r \in addPathToRoot(a, a.root, TRUE, path) }

\* FindConfigForPath(path): <<>> is the nil pointer
RECURSIVE findConfigWalk(_, _, _)
findConfigWalk(node, segments, lastFoundConfig) ==
    IF segments = <<>> THEN lastFoundConfig
    ELSE IF HasChild(node, Head(segments))
    THEN LET nextNode == Child(node, Head(segments))
         IN  findConfigWalk(nextNode, Tail(segments),
                 IF nextNode.Config # <<>> THEN nextNode.Config
                 ELSE lastFoundConfig)
    ELSE lastFoundConfig

FindConfigForPath(a, path) ==
    findConfigWalk(a.root, splitPath(path), a.root.Config)

----------------------------------------------------------------------------
(* Analysis: PathAnalyzer.AnalyzePath                                      *)

\* the read loop of AnalyzePath: the segments it appends to pathSegments
RECURSIVE readSegments(_, _)
readSegments(node, segments) ==
    IF segments = <<>> THEN <<>>
    ELSE LET segment == Head(segments)
         IN  IF HasChild(node, WildcardIdentifier)
             THEN <<WildcardIdentifier>>
             ELSE IF HasChild(node, DynamicIdentifier)
             THEN <<DynamicIdentifier>>
                  \o readSegments(Child(node, DynamicIdentifier), Tail(segments))
             ELSE IF HasChild(node, segment)
             THEN <<segment>> \o readSegments(Child(node, segment), Tail(segments))
             ELSE <<segment>> \o readSegments(node, Tail(segments))

\* collapseFrom that skips the two dynamic identifiers it has looked at and no
\* more: a run of three leaves a dynamic identifier after the wildcard
RECURSIVE collapsePairsFrom(_, _)
collapsePairsFrom(segments, i) ==
    IF i > Len(segments) THEN <<>>
    ELSE IF segments[i] = DynamicIdentifier /\ i + 1 <= Len(segments)
            /\ segments[i + 1] = DynamicIdentifier
    THEN <<WildcardIdentifier>> \o collapsePairsFrom(segments, i + 2)
    ELSE <<segments[i]>> \o collapsePairsFrom(segments, i + 1)

\* the loop of CollapseAdjacentDynamicIdentifiers from index i on
RECURSIVE collapseFrom(_, _)
collapseFrom(segments, i) ==
    IF i > Len(segments) THEN <<>>
    ELSE IF segments[i] = DynamicIdentifier /\ i + 1 <= Len(segments)
            /\ segments[i + 1] = DynamicIdentifier
    THEN LET RECURSIVE skip(_)
             skip(j) == IF j <= Len(segments) /\ segments[j] = DynamicIdentifier
                        THEN skip(j + 1) ELSE j
         IN  <<WildcardIdentifier>> \o collapseFrom(segments, skip(i))
    ELSE <<segments[i]>> \o collapseFrom(segments, i + 1)

CollapseAdjacentDynamicIdentifiers(p) == collapseFrom(p, 1)

\* AnalyzePath with the read loop after the insertion: the call observes its own
\* collapse
AnalyzePathReadAfterWrite(a, path, identifier) ==
    LET cleanPath == Trim(path)
    IN  IF cleanPath = <<"">> THEN {[result |-> <<"", "">>, pm |-> a]}
        ELSE
        LET a1 == getRoot(a, identifier)
            root == a1.identRoots[identifier]
            segments == splitPath(cleanPath)
        IN  IF Len(segments) = 0 THEN {[result |-> <<"", "">>, pm |-> a1]}
            ELSE
            { [ result |-> CollapseAdjacentDynamicIdentifiers(
                               Abs(readSegments(r, segments))),
                pm |-> SetIdentRoot(a1, identifier, r) ]
              : r \in addPathToRoot(a1, root, FALSE, cleanPath) }

\* AnalyzePath(path, identifier): the outcomes [result, pm] the call may have
AnalyzePath(a, path, identifier) ==
    LET cleanPath == Trim(path)
    IN  IF cleanPath = <<"">> THEN {[result |-> <<"", "">>, pm |-> a]}
        ELSE
        LET a1 == getRoot(a, identifier)
            root == a1.identRoots[identifier]
            segments == splitPath(cleanPath)
        IN  IF Len(segments) = 0 THEN {[result |-> <<"", "">>, pm |-> a1]}
            ELSE
            LET pathSegments == readSegments(root, segments)
                finalPath == Abs(pathSegments)
            IN  { [ result |-> CollapseAdjacentDynamicIdentifiers(finalPath),
                    pm |-> SetIdentRoot(a1, identifier, r) ]
                  : r \in addPathToRoot(a1, root, FALSE, cleanPath) }

----------------------------------------------------------------------------
(* AnalyzeOpens                                                            *)

\* the byte order of the path segments the model uses (strings.Compare): none
\* of them continues another with a byte below '/', so that two path strings
\* compare as their segment lists do
SegmentOrder ==
    << "", WildcardIdentifier, "1", "2", "3", "4", "5", "a", "api", "app", "b",
       "c", "file.txt", "home", "posts", "users", DynamicIdentifier >>

\* the byte order of the open flags
FlagOrder == <<"APPEND", "READ", "WRITE">>

IndexIn(order, x) == CHOOSE i \in 1..Len(order) : order[i] = x

\* strings.Compare(p, q) < 0
RECURSIVE PathLess(_, _)
PathLess(p, q) ==
    IF p = <<>> THEN q # <<>>
    ELSE IF q = <<>> THEN FALSE
    ELSE IF Head(p) = Head(q) THEN PathLess(Tail(p), Tail(q))
    ELSE IndexIn(SegmentOrder, Head(p)) < IndexIn(SegmentOrder, Head(q))

Range(seq) == {seq[i] : i \in 1..Len(seq)}

\* mapset.Sorted(mapset.NewThreadUnsafeSet(flags...))
SortedFlags(flags) ==
    SelectSeq(FlagOrder, LAMBDA f : f \in Range(flags))

AnalyzeOpen(a, path) == AnalyzePath(a, path, "opens")

\* the first loop: every path is analyzed and the result dropped
RECURSIVE primeOpens(_, _, _)
primeOpens(a, items, i) ==
    IF i > Len(items) THEN {a}
    ELSE UNION {primeOpens(o.pm, items, i + 1) : o \in AnalyzeOpen(a, items[i].Path)}

\* m[key] = value of a Go map
MapPut(m, key, value) ==
    [k \in DOMAIN m \cup {key} |-> IF k = key THEN value ELSE m[k]]

\* the second loop, from opens[i] on: the outcomes [pm, dynamicOpens]
RECURSIVE generalizeOpens(_, _, _, _, _)
generalizeOpens(a, items, i, sbomSet, dynamicOpens) ==
    IF i > Len(items) THEN {[pm |-> a, dynamicOpens |-> dynamicOpens]}
    ELSE IF items[i].Path \in sbomSet
    THEN generalizeOpens(a, items, i + 1, sbomSet,
                         MapPut(dynamicOpens, items[i].Path, items[i]))
    ELSE UNION {
        LET result == o.result
        IN  generalizeOpens(o.pm, items, i + 1, sbomSet,
                IF result # items[i].Path
                THEN IF result \in DOMAIN dynamicOpens
                     THEN MapPut(dynamicOpens, result,
                              [Path  |-> dynamicOpens[result].Path,
                               Flags |-> SortedFlags(dynamicOpens[result].Flags
                                                        \o items[i].Flags)])
                     ELSE MapPut(dynamicOpens, result,
                              [Path |-> result, Flags |-> items[i].Flags])
                ELSE MapPut(dynamicOpens, items[i].Path, items[i]))
        : o \in AnalyzeOpen(a, items[i].Path) }

\* the consolidation loop over dynamicOpens, its keys visited in the given
\* order: the outcomes [pm, finalOpens]
RECURSIVE consolidateOpens(_, _, _, _)
consolidateOpens(a, dynamicOpens, order, finalOpens) ==
    IF order = <<>> THEN {[pm |-> a, finalOpens |-> finalOpens]}
    ELSE UNION {
        LET open == dynamicOpens[Head(order)]
            finalPath == o.result
        IN  consolidateOpens(o.pm, dynamicOpens, Tail(order),
                IF finalPath \in DOMAIN finalOpens
                THEN MapPut(finalOpens, finalPath,
                         [Path  |-> finalOpens[finalPath].Path,
                          Flags |-> SortedFlags(finalOpens[finalPath].Flags
                                                   \o open.Flags)])
                ELSE MapPut(finalOpens, finalPath,
                         [Path |-> finalPath, Flags |-> open.Flags]))
        : o \in AnalyzeOpen(a, dynamicOpens[Head(order)].Path) }

\* SortedByPath with the comparison the other way round: the greatest Path first
RECURSIVE SortedByPathDescending(_)
SortedByPathDescending(m) ==
    IF DOMAIN m = {} THEN <<>>
    ELSE LET greatest == CHOOSE p \in DOMAIN m :
                             \A q \in DOMAIN m \ {p} : PathLess(q, p)
         IN  <<m[greatest]>>
                 \o SortedByPathDescending([k \in DOMAIN m \ {greatest} |-> m[k]])

\* slices.SortedFunc(maps.Values(m), by Path)
RECURSIVE SortedByPath(_)
SortedByPath(m) ==
    IF DOMAIN m = {} THEN <<>>
    ELSE LET least == CHOOSE p \in DOMAIN m :
                          \A q \in DOMAIN m \ {p} : PathLess(p, q)
         IN  <<m[least]>> \o SortedByPath([k \in DOMAIN m \ {least} |-> m[k]])

NilOpens == [isNil |-> TRUE, items |-> <<>>]

NilSet == [isNil |-> TRUE, elems |-> {}]

\* AnalyzeOpens(opens, analyzer, sbomSet): the outcomes [out, err, pm] the
\* call may have, one for each order the consolidation loop may visit
\* dynamicOpens in.  A nil slice is [isNil |-> TRUE, items |-> <<>>].
AnalyzeOpens(in, a, sbomSet) ==
    IF in.isNil THEN {[out |-> NilOpens, err |-> "", pm |-> a]}
    ELSE IF sbomSet.isNil
    THEN {[out |-> NilOpens, err |-> "sbomSet is nil", pm |-> a]}
    ELSE UNION { UNION { UNION {
            { [ out |-> [isNil |-> DOMAIN c.finalOpens = {},
                         items |-> SortedByPath(c.finalOpens)],
                err |-> "",
                pm  |-> c.pm ]
              : c \in consolidateOpens(g.pm, g.dynamicOpens, order, EmptyChildren) }
            : order \in MapOrders(DOMAIN g.dynamicOpens) }
            : g \in generalizeOpens(primed, in.items, 1, sbomSet.elems,
                                    EmptyChildren) }
            : primed \in primeOpens(a, in.items, 1) }

----------------------------------------------------------------------------
(* The analyzer as a state machine: a caller constructs an analyzer and    *)
(* calls AnalyzePath and AddPath on it                                     *)

MaxCalls == 3

MaxThreshold == 2

MaxOpens == 3

Path(segs) == Abs(segs)

\* "/a/b", "/b/b", "/app/b", "/a/app/b", "/a/⋯", "/a/*/b", "/app/⋯", "/",
\* "//a//b/"
Paths ==
    { Path(<<"a", "b">>), Path(<<"b", "b">>), Path(<<"app", "b">>),
      Path(<<"a", "app", "b">>), Path(<<"a", DynamicIdentifier>>),
      Path(<<"a", WildcardIdentifier, "b">>),
      Path(<<"app", DynamicIdentifier>>),
      <<"", "">>, <<"", "", "a", "", "b", "">> }

AddPaths == { Path(<<"a", "b">>), Path(<<"app", "b">>) }

Identifiers == {"opens", "api"}

Thresholds == 1..MaxThreshold

NoCall == [op |-> "", path |-> <<>>, id |-> "", result |-> <<>>]

\* a nil slice of endpoints or of execs
NilList == [isNil |-> TRUE, items |-> <<>>]

NoEndpoints == [called |-> FALSE, op |-> "", in |-> NilList, out |-> NilList]

NoExecs ==
    [ called |-> FALSE, in |-> NilList, threshold |-> 0,
      analyzer |-> [roots |-> EmptyChildren, threshold |-> 0], out |-> NilList ]

NoCompare ==
    [called |-> FALSE, dynamicPath |-> <<>>, regularPath |-> <<>>, result |-> FALSE]

NoOpens == [called |-> FALSE, in |-> NilOpens, sbom |-> NilSet,
            out |-> NilOpens, err |-> ""]

\* the path has a segment ⋯ or *
HasMarker(path) ==
    \E i \in DOMAIN path : path[i] \in {DynamicIdentifier, WildcardIdentifier}

Fresh(analyzers) ==
    /\ pm \in analyzers
    /\ ncalls = 0
    /\ last = NoCall
    /\ seen = {}
    /\ opens = NoOpens
    /\ shared = [Prefix |-> <<"", "">>, Threshold |-> SharedDefaultThreshold]
    /\ matchers = EmptyChildren
    /\ endpoints = NoEndpoints
    /\ execs = NoExecs
    /\ compared = NoCompare
    /\ marked = {}

Init == Fresh({NewPathAnalyzer(t) : t \in Thresholds})

\* result := pm.AnalyzePath(path, identifier)
CallAnalyzePath(path, identifier) ==
    /\ \E o \in AnalyzePath(pm, path, identifier) :
          /\ pm' = o.pm
          /\ last' = [op |-> "AnalyzePath", path |-> path, id |-> identifier,
                      result |-> o.result]
    /\ ncalls' = ncalls + 1
    /\ seen' = seen \cup {[op |-> "AnalyzePath", path |-> path, id |-> identifier]}
    /\ marked' = IF HasMarker(last'.result)
                 THEN marked \cup {[path |-> path, id |-> identifier]}
                 ELSE marked
    /\ UNCHANGED <<opens, shared, matchers, endpoints, execs, compared>>

\* pm.AddPath(path)
CallAddPath(path) ==
    /\ pm' \in AddPath(pm, path)
    /\ last' = [op |-> "AddPath", path |-> path, id |-> "", result |-> <<>>]
    /\ ncalls' = ncalls + 1
    /\ seen' = seen \cup {[op |-> "AddPath", path |-> path, id |-> ""]}
    /\ UNCHANGED <<opens, shared, matchers, endpoints, execs, compared, marked>>

Next ==
    \/ \E path \in Paths, identifier \in Identifiers :
          ncalls < MaxCalls /\ CallAnalyzePath(path, identifier)
    \/ \E path \in AddPaths :
          ncalls < MaxCalls /\ CallAddPath(path)

Spec == Init /\ [][Next]_vars

----------------------------------------------------------------------------
(* A caller that feeds one analyzer the children of /api/users             *)

\* the names of the children: one that is also the name of a configured
\* prefix, and as many others as passing any threshold takes
ChildNames == {"app"} \cup {SegmentOrder[2 + i] : i \in 1..(MaxThreshold + 1)}

ChildPath(child) == Path(<<"api", "users", child>>)

ChildPaths ==
    {ChildPath(c) : c \in ChildNames}
        \cup {ChildPath(c) \o <<"posts">> : c \in ChildNames}

InitChildren == Fresh({NewPathAnalyzer(t) : t \in 2..MaxThreshold})

NextChildren ==
    \E path \in ChildPaths :
        ncalls < MaxThreshold + 2 /\ CallAnalyzePath(path, "api")

SpecChildren == InitChildren /\ [][NextChildren]_vars

----------------------------------------------------------------------------
(* A caller that hands a list of opens to AnalyzeOpens                     *)

OpenPaths ==
    { Path(<<"home", u, "file.txt">>) :
          u \in {"a", "b", "c", "app", DynamicIdentifier} }
        \cup { Path(<<"home", "a">>) }

OpenFlags == { <<"READ">>, <<"WRITE", "READ">> }

OpenCalls == [Path : OpenPaths, Flags : OpenFlags]

\* the lists of k elements of S
RECURSIVE ListsOf(_, _)
ListsOf(S, k) ==
    IF k = 0 THEN {<<>>} ELSE {<<x>> \o s : x \in S, s \in ListsOf(S, k - 1)}

OpenLists ==
    {NilOpens} \cup
    { [isNil |-> FALSE, items |-> s] :
          s \in UNION {ListsOf(OpenCalls, k) : k \in 0..MaxOpens} }

SbomSets ==
    { NilSet, [isNil |-> FALSE, elems |-> {}],
      [isNil |-> FALSE, elems |-> {Path(<<"home", "a", "file.txt">>)}] }

InitOpens == Fresh({NewPathAnalyzer(t) : t \in 2..MaxThreshold})

\* out, err := AnalyzeOpens(in, pm, sbomSet)
CallAnalyzeOpens(in, sbomSet) ==
    /\ ~opens.called
    /\ \E o \in AnalyzeOpens(in, pm, sbomSet) :
          /\ pm' = o.pm
          /\ opens' = [called |-> TRUE, in |-> in, sbom |-> sbomSet,
                       out |-> o.out, err |-> o.err]
    /\ ncalls' = ncalls + 1
    /\ UNCHANGED <<last, seen, shared, matchers, endpoints, execs, compared, marked>>

NextOpens ==
    /\ ~opens.called
    /\ \E in \in OpenLists, sbomSet \in SbomSets : CallAnalyzeOpens(in, sbomSet)

SpecOpens == InitOpens /\ [][NextOpens]_vars

----------------------------------------------------------------------------
(* Properties of the tries                                                 *)

\* the tries of the analyzer: the configuration trie and the trie of each
\* identifier
Tries(a) == {a.root} \cup {a.identRoots[i] : i \in DOMAIN a.identRoots}

\* no node of the trie has a * child together with another child
RECURSIVE WildcardsAlone(_)
WildcardsAlone(node) ==
    /\ HasChild(node, WildcardIdentifier)
          => DOMAIN node.Children = {WildcardIdentifier}
    /\ \A k \in DOMAIN node.Children : WildcardsAlone(node.Children[k])

\* C1: marker-sibling exclusivity.  After any sequence of AddPath and
\* AnalyzePath insertions, no node of any trie has both a literal child and a
\* * child, and no node that has a * child has any other child.
C1_MarkerSiblingExclusivity == \A t \in Tries(pm) : WildcardsAlone(t)

----------------------------------------------------------------------------
(* Properties of the thresholds                                            *)

\* the path of the first d segments
Prefix(segments, d) == Path(SubSeq(segments, 1, d))

\* the config the insertion walk holds once it has navigated the segments:
\* the "advance config" step taken after each of them, from the root
RECURSIVE walkConfig(_, _, _, _)
walkConfig(a, cpos, currentConfig, segments) ==
    IF segments = <<>> THEN currentConfig
    ELSE LET adv == advanceConfig(a.root, cpos, currentConfig, Head(segments))
         IN  walkConfig(a, adv.cpos, adv.cfg, Tail(segments))

\* the threshold applied to the children of the node reached by the segments
AppliedThreshold(a, segments) ==
    walkConfig(a, <<>>,
               IF a.root.Config # <<>> THEN a.root.Config[1] ELSE a.defaultCfg,
               segments).Threshold

\* the threshold of the config FindConfigForPath returns, the default threshold
\* when it returns none
ConfiguredThreshold(a, path) ==
    IF FindConfigForPath(a, path) # <<>>
    THEN FindConfigForPath(a, path)[1].Threshold
    ELSE a.defaultCfg.Threshold

\* C8: per-prefix threshold lookup.  When AnalyzePath inserts a child under the
\* node reached by the segments s1..sd of its path, the threshold applied is the
\* one of the config FindConfigForPath returns for /s1/../sd, the default
\* threshold when no configured prefix is a prefix of that path.
C8_PerPrefixThresholdLookup ==
    last.op = "AnalyzePath" =>
        LET segments == splitPath(last.path)
        IN  \A d \in 0..(Len(segments) - 1) :
                AppliedThreshold(pm, SubSeq(segments, 1, d))
                    = ConfiguredThreshold(pm, Prefix(segments, d))

AppPath == Path(<<"app">>)

UnderApp(path) == Len(splitPath(path)) >= 2 /\ splitPath(path)[1] = "app"

AppWildcard == Path(<<"app", WildcardIdentifier>>)

\* every AnalyzePath of a path below /app for the identifier returns /app/*
ReadsAppWildcard(identifier) ==
    \A path \in Paths :
        UnderApp(path) =>
            \A o \in AnalyzePath(pm, path, identifier) : o.result = AppWildcard

\* no segment of the path is a marker
Literal(path) ==
    \A j \in 1..Len(path) : path[j] \notin {DynamicIdentifier, WildcardIdentifier}

\* the calls made so far are AnalyzePath calls of literal paths on an analyzer
\* whose default threshold is not 1
LiteralAnalyses ==
    /\ pm.defaultCfg.Threshold > 1
    /\ \A c \in seen : c.op = "AnalyzePath" /\ Literal(c.path)

AppWildcardCase(identifier) ==
    /\ identifier \in DOMAIN pm.identRoots
    /\ ConfiguredThreshold(pm, AppPath) = 1
    /\ HasChild(pm.identRoots[identifier], "app")
    /\ DOMAIN Child(pm.identRoots[identifier], "app").Children
          \notin {{}, {DynamicIdentifier}}

FreshAnalyzer == newAnalyzer(pm.defaultCfg, pm.configs)

\* a path AnalyzePath returns as it is on a fresh analyzer, none of whose
\* nodes is governed by a threshold of 1
Generalized(path, identifier) ==
    /\ \A o \in AnalyzePath(FreshAnalyzer, path, identifier) : o.result = path
    /\ \A d \in 0..Len(splitPath(path)) :
          AppliedThreshold(FreshAnalyzer, SubSeq(splitPath(path), 1, d)) # 1

\* C10: idempotence of generalization.  For a generalized path P and a fresh
\* analyzer on which AnalyzePath(P) has been called once, a second
\* AnalyzePath(P) returns P.
C10_IdempotentGeneralization ==
    ( /\ ncalls = 2
      /\ seen = {[op |-> "AnalyzePath", path |-> last.path, id |-> last.id]}
      /\ Generalized(last.path, last.id) )
    => last.result = last.path

----------------------------------------------------------------------------
(* Properties of the children of /api/users                                *)

UsersPath == Path(<<"api", "users">>)

DynamicChild == ChildPath(DynamicIdentifier)

\* the node /api/users of the trie of the identifier "api"
UsersNode == NodeAt(pm.identRoots["api"], <<"api", "users">>)

\* the children of /api/users the calls have inserted
InsertedChildren == {splitPath(c.path)[3] : c \in seen}

\* what AnalyzePath returns for the path in the current state
Reads(path, result) ==
    \A o \in AnalyzePath(pm, path, "api") : o.result = result

\* C4: threshold boundary.  For the node /api/users, governed by the threshold
\* N >= 2: while at most N distinct literal children have been inserted the
\* node has no dynamic child and every child reads back literally; once N + 1
\* distinct literal children have been inserted the node has a dynamic child.
C4_ThresholdBoundary ==
    ncalls > 0 =>
        /\ Cardinality(InsertedChildren) <= pm.defaultCfg.Threshold
              => /\ ~HasChild(UsersNode, DynamicIdentifier)
                 /\ \A c \in InsertedChildren : Reads(ChildPath(c), ChildPath(c))
        /\ Cardinality(InsertedChildren) > pm.defaultCfg.Threshold
              => HasChild(UsersNode, DynamicIdentifier)

\* exactly N children were inserted and none has collapsed, or the (N+1)-th
\* child has just been inserted and the node has its dynamic child
C4_Witness ==
    /\ ncalls = pm.defaultCfg.Threshold + 1
    /\ Cardinality(InsertedChildren) = pm.defaultCfg.Threshold + 1
    /\ DOMAIN UsersNode.Children = {DynamicIdentifier}

\* C5: read-before-write.  On a fresh analyzer with threshold N >= 2, a call
\* AnalyzePath(/api/users/<i>) with a child not inserted before returns its
\* input unchanged while at most N distinct children were inserted before it
\* (the (N+1)-th such call, whose insertion triggers the collapse, included),
\* and a call made after N + 1 distinct children were inserted returns
\* /api/users/⋯.
C5_ReadBeforeWrite ==
    [][ Len(last'.path) = Len(UsersPath) + 1 =>
          /\ ( /\ splitPath(last'.path)[3] \notin InsertedChildren
               /\ Cardinality(InsertedChildren) <= pm.defaultCfg.Threshold )
                => last'.result = last'.path
          /\ Cardinality(InsertedChildren) > pm.defaultCfg.Threshold
                => last'.result = DynamicChild ]_vars

\* the (N+1)-th distinct child has been returned unchanged and the call after
\* it has returned /api/users/⋯
C5_Witness ==
    /\ ncalls = pm.defaultCfg.Threshold + 2
    /\ Cardinality(InsertedChildren) = pm.defaultCfg.Threshold + 1
    /\ \A c \in seen : Len(c.path) = Len(UsersPath) + 1
    /\ last.result = DynamicChild

\* C6: retroactive collapse.  Once the children of /api/users have collapsed,
\* AnalyzePath of a child path inserted before returns /api/users/⋯, and the
\* literal tail the children shared is still emitted after the dynamic
\* identifier: /api/users/⋯/posts.
C6_RetroactiveCollapse ==
    (ncalls > 0 /\ HasChild(UsersNode, DynamicIdentifier)) =>
        \A c \in seen :
            Reads(c.path, DynamicChild \o SubSeq(c.path, Len(DynamicChild) + 1,
                                                 Len(c.path)))

----------------------------------------------------------------------------
(* Properties of AnalyzeOpens                                              *)

\* the call has gone through its three loops
Analyzed == opens.called /\ ~opens.in.isNil /\ ~opens.sbom.isNil

OutPaths == {opens.out.items[j].Path : j \in 1..Len(opens.out.items)}

\* C2: SBOM preservation.  For every input OpenCall whose Path is in the SBOM
\* set, the output of AnalyzeOpens has an entry with exactly that Path, also
\* when its siblings exceed the threshold and collapse.
C2_SbomPreservation ==
    Analyzed =>
        \A i \in 1..Len(opens.in.items) :
            opens.in.items[i].Path \in opens.sbom.elems
                => opens.in.items[i].Path \in OutPaths

HomePattern == Path(<<"home", DynamicIdentifier, "file.txt">>)

\* the concatenation of the Flags of the OpenCalls
RECURSIVE AllFlags(_)
AllFlags(items) ==
    IF items = <<>> THEN <<>> ELSE Head(items).Flags \o AllFlags(Tail(items))

\* K > N OpenCalls /home/<u_i>/file.txt with pairwise distinct literal u_i
DistinctUsers(items) ==
    /\ Len(items) > pm.defaultCfg.Threshold
    /\ \A i \in 1..Len(items) :
          /\ Len(items[i].Path) = Len(HomePattern)
          /\ items[i].Path[3] \notin {DynamicIdentifier, WildcardIdentifier}
    /\ \A i, j \in 1..Len(items) : items[i].Path = items[j].Path => i = j

\* C3: collapse with flag merging.  With a fresh analyzer of threshold N >= 2,
\* AnalyzeOpens on K > N OpenCalls /home/<u_i>/file.txt with pairwise distinct
\* u_i returns exactly one entry, with Path /home/⋯/file.txt and Flags the
\* sorted duplicate-free union of all the input Flags.
C3_CollapseWithFlagMerging ==
    (Analyzed /\ opens.sbom.elems = {} /\ DistinctUsers(opens.in.items)) =>
        opens.out.items =
            << [Path  |-> HomePattern,
                Flags |-> SortedFlags(AllFlags(opens.in.items))] >>

\* the entries of an output, the Flags of each as a set
Entries(out) ==
    { [Path |-> out.items[j].Path, Flags |-> Range(out.items[j].Flags)]
      : j \in 1..Len(out.items) }

\* the list in the order p
Permuted(items, p) == [i \in 1..Len(items) |-> items[p[i]]]

\* C7: order-insensitivity.  For a fresh analyzer, AnalyzeOpens returns the
\* same output paths with the same Flags for every permutation of its input
\* list.
C7_OrderInsensitivity ==
    Analyzed =>
        \A p \in Permutations(1..Len(opens.in.items)) :
            \A o \in AnalyzeOpens(
                         [isNil |-> FALSE,
                          items |-> Permuted(opens.in.items, p)],
                         FreshAnalyzer, opens.sbom) :
                Entries(o.out) = Entries(opens.out)


----------------------------------------------------------------------------
(* A caller that analyzes paths which already hold dynamic segments        *)

DynamicSegments == {"a", DynamicIdentifier}

\* the paths of three segments, each a literal or the dynamic identifier
DynamicPaths == {Path(<<x, y, z>>) : x, y, z \in DynamicSegments}

NextDynamic ==
    \E path \in DynamicPaths :
        ncalls < MaxCalls /\ CallAnalyzePath(path, "opens")

SpecDynamic == Init /\ [][NextDynamic]_vars

\* no two consecutive segments of the path are the dynamic identifier
NoAdjacentDynamic(p) ==
    \A j \in 1..(Len(p) - 1) :
        ~(p[j] = DynamicIdentifier /\ p[j + 1] = DynamicIdentifier)

\* the number of dynamic identifiers the segments start with
RECURSIVE LeadingDynamic(_)
LeadingDynamic(s) ==
    IF s # <<>> /\ Head(s) = DynamicIdentifier
    THEN 1 + LeadingDynamic(Tail(s)) ELSE 0

\* the segments with every run of two or more dynamic identifiers replaced by
\* one wildcard, everything else kept
RECURSIVE RunsAsWildcard(_)
RunsAsWildcard(s) ==
    IF s = <<>> THEN <<>>
    ELSE IF LeadingDynamic(s) >= 2
    THEN <<WildcardIdentifier>>
             \o RunsAsWildcard(SubSeq(s, LeadingDynamic(s) + 1, Len(s)))
    ELSE <<Head(s)>> \o RunsAsWildcard(Tail(s))

\* the trie of the identifier, empty when the identifier has none yet
RootOf(a, identifier) ==
    IF identifier \in DOMAIN a.identRoots THEN a.identRoots[identifier]
    ELSE NewTrieNode

\* C11: adjacent-dynamic collapse.  Whatever the trie holds, the value
\* AnalyzePath returns has no two consecutive ⋯ segments: it is the path read
\* from the trie with every run of two or more ⋯ replaced by a single *, single
\* ⋯ segments and ⋯ segments separated by a static segment left as they are.
C11_AdjacentDynamicCollapse ==
    [][ last'.op = "AnalyzePath" =>
          /\ NoAdjacentDynamic(last'.result)
          /\ last'.result =
                RunsAsWildcard(Abs(readSegments(RootOf(pm, last'.id),
                                                splitPath(last'.path)))) ]_vars

\* a call on a trie that holds dynamic nodes has read a run of three ⋯ and
\* returned it as one *
C11_Witness ==
    /\ ncalls >= 2
    /\ last.op = "AnalyzePath"
    /\ last.path = Path(<<DynamicIdentifier, DynamicIdentifier, DynamicIdentifier>>)
    /\ last.result = Path(<<WildcardIdentifier>>)
    /\ pm.defaultCfg.Threshold > 1


\* the set with no element
EmptySet == [isNil |-> FALSE, elems |-> {}]

\* C12: nil SBOM.  AnalyzeOpens called with a list that is not nil and a nil
\* SBOM set returns no error, and a result it also returns when called with the
\* empty SBOM set.
C12_NilSbomAsEmpty ==
    (opens.called /\ ~opens.in.isNil /\ opens.sbom.isNil) =>
        /\ opens.err = ""
        /\ \E o \in AnalyzeOpens(opens.in, FreshAnalyzer, EmptySet) :
              o.out = opens.out


\* C13: flag set purity.  The Flags of every OpenCall AnalyzeOpens returns are
\* sorted and hold no flag twice, for an entry merged from several inputs as
\* for a single input passed through.
C13_FlagSetPurity ==
    Analyzed =>
        \A j \in 1..Len(opens.out.items) :
            opens.out.items[j].Flags = SortedFlags(opens.out.items[j].Flags)


\* C14: the list AnalyzeOpens returns is sorted by Path in strictly increasing
\* order, so that no two of its entries have the same Path.
C14_SortedByPath ==
    Analyzed =>
        \A i, j \in 1..Len(opens.out.items) :
            i < j => PathLess(opens.out.items[i].Path, opens.out.items[j].Path)

\* three inputs given in decreasing order of Path have come out as three
\* entries
C14_Witness ==
    /\ Analyzed
    /\ Len(opens.in.items) = 3
    /\ Len(opens.out.items) = 3
    /\ \A i \in 1..2 :
          PathLess(opens.in.items[i + 1].Path, opens.in.items[i].Path)


\* C15: idempotent deflation of opens.  AnalyzeOpens run with a fresh analyzer
\* of the same thresholds on the list a previous run returned, with the same
\* SBOM set or the empty one, returns that list unchanged.
C15_IdempotentDeflation ==
    Analyzed =>
        \A sbomSet \in {opens.sbom, EmptySet} :
            \A o \in AnalyzeOpens(opens.out, FreshAnalyzer, sbomSet) :
                o.out = opens.out


----------------------------------------------------------------------------
(* A caller that hands AnalyzeOpens paths two levels below /home           *)

\* /home/a/1, /home/a/2, /home/b/3: three files in two directories
DeepOpenPaths ==
    { Path(<<"home", "a", "1">>), Path(<<"home", "a", "2">>),
      Path(<<"home", "b", "3">>) }

\* the files and one more directory, /home/c
DeepOpenCalls ==
    [Path : DeepOpenPaths \cup {Path(<<"home", "c">>)}, Flags : {<<"READ">>}]

\* the lists of opens long enough for the directories to pass a threshold
\* with all the files inserted
DeepOpenLists ==
    { [isNil |-> FALSE, items |-> s] :
          s \in UNION {ListsOf(DeepOpenCalls, k) : k \in 0..(MaxOpens + 1)} }

\* no file is in the SBOM, or all are
DeepSbomSets == {EmptySet, [isNil |-> FALSE, elems |-> DeepOpenPaths]}

NextDeepOpens ==
    /\ ~opens.called
    /\ \E in \in DeepOpenLists, sbomSet \in DeepSbomSets :
           CallAnalyzeOpens(in, sbomSet)

SpecDeepOpens == InitOpens /\ [][NextDeepOpens]_vars


\* C16: determinism.  For a given input list, SBOM set and analyzer
\* configuration, AnalyzeOpens returns the same output whatever order the
\* consolidation loop visits the keys of dynamicOpens in.
C16_Determinism ==
    Analyzed =>
        \A o \in AnalyzeOpens(opens.in, FreshAnalyzer, opens.sbom) :
            o.out = opens.out


----------------------------------------------------------------------------
(* Properties of repeated and of unrelated paths                           *)

\* no node of the trie has a dynamic or a wildcard child
RECURSIVE NoMarkerNode(_)
NoMarkerNode(node) ==
    /\ ~HasChild(node, DynamicIdentifier)
    /\ ~HasChild(node, WildcardIdentifier)
    /\ \A k \in DOMAIN node.Children : NoMarkerNode(node.Children[k])

\* every threshold configured for a node on the path is at least 2
ThresholdsAtLeast2(a, path) ==
    \A d \in 0..(Len(splitPath(path)) - 1) :
        ConfiguredThreshold(a, Prefix(splitPath(path), d)) >= 2

\* C17: duplicate-insensitivity.  On a fresh analyzer, analyzing K times the
\* same literal path "/s1/../sn", all of whose nodes are configured with
\* thresholds of at least 2, creates no ⋯ and no * node, and every call returns
\* the path unchanged.
C17_DuplicateInsensitivity ==
    ( /\ ncalls >= 1
      /\ seen = {[op |-> "AnalyzePath", path |-> last.path, id |-> last.id]}
      /\ Literal(last.path)
      /\ last.path = Path(splitPath(last.path))
      /\ ThresholdsAtLeast2(FreshAnalyzer, last.path) )
    => /\ last.result = last.path
       /\ NoMarkerNode(pm.identRoots[last.id])

\* C17 for the paths none of whose nodes gets a threshold of 1 applied by the
\* insertion walk
DuplicateInsensitivityWhereApplied ==
    ( /\ ncalls >= 1
      /\ seen = {[op |-> "AnalyzePath", path |-> last.path, id |-> last.id]}
      /\ Literal(last.path)
      /\ last.path = Path(splitPath(last.path))
      /\ \A d \in 0..Len(splitPath(last.path)) :
            AppliedThreshold(FreshAnalyzer,
                             SubSeq(splitPath(last.path), 1, d)) >= 2 )
    => /\ last.result = last.path
       /\ NoMarkerNode(pm.identRoots[last.id])

\* the first segment of the path, "" when it has none
FirstSegment(path) ==
    IF splitPath(path) = <<>> THEN "" ELSE Head(splitPath(path))

\* the path is under a literal first-level prefix
UnderLiteralPrefix(path) ==
    FirstSegment(path) \notin {"", DynamicIdentifier, WildcardIdentifier}

\* the children of the node have not been collapsed
NotCollapsed(node) ==
    ~HasChild(node, DynamicIdentifier) /\ ~HasChild(node, WildcardIdentifier)

\* the values AnalyzePath may return for the path, among the calls that leave
\* the root of the identifier's trie uncollapsed
IsolatedResults(a, path, identifier) ==
    { o.result : o \in { x \in AnalyzePath(a, path, identifier) :
                            NotCollapsed(x.pm.identRoots[identifier]) } }

\* the trie a call writes to
WrittenTrie(a, call) ==
    IF call.op = "AddPath" THEN a.root ELSE RootOf(a, call.id)

\* C18: sibling-prefix isolation.  A call that inserts a path under /A and
\* leaves the root of the trie it writes to uncollapsed leaves the subtree of
\* every other first-level child B of that trie as it was, and the values
\* AnalyzePath returns for the paths under /B are the ones it returned before
\* the call, as long as the root of the identifier's trie stays uncollapsed.
C18_SiblingPrefixIsolation ==
    [][ ( /\ ncalls' = ncalls + 1
          /\ UnderLiteralPrefix(last'.path)
          /\ NotCollapsed(WrittenTrie(pm', last')) )
        => /\ \A B \in DOMAIN WrittenTrie(pm, last').Children :
                 B # FirstSegment(last'.path)
                 => /\ HasChild(WrittenTrie(pm', last'), B)
                    /\ Child(WrittenTrie(pm', last'), B)
                          = Child(WrittenTrie(pm, last'), B)
           /\ \A q \in Paths, identifier \in Identifiers :
                 ( /\ UnderLiteralPrefix(q)
                   /\ FirstSegment(q) # FirstSegment(last'.path) )
                 => IsolatedResults(pm', q, identifier)
                       = IsolatedResults(pm, q, identifier) ]_vars

\* C18 for the siblings the trie already holds: the walk that reads a path
\* under /B enters the subtree of B at its first segment and never leaves it
SiblingIsolationOfInsertedPrefixes ==
    [][ ( /\ ncalls' = ncalls + 1
          /\ last'.op = "AnalyzePath"
          /\ UnderLiteralPrefix(last'.path)
          /\ NotCollapsed(RootOf(pm', last'.id)) )
        => \A q \in Paths :
              ( /\ UnderLiteralPrefix(q)
                /\ FirstSegment(q) # FirstSegment(last'.path)
                /\ HasChild(RootOf(pm, last'.id), FirstSegment(q)) )
              => IsolatedResults(pm', q, last'.id)
                    = IsolatedResults(pm, q, last'.id) ]_vars

----------------------------------------------------------------------------
(* The configuration trie                                                  *)

\* the paths FindConfigForPath is asked about: the configured prefixes and
\* the paths of the calls
LookupPaths ==
    Paths \cup { pm.configs[i].Prefix : i \in DOMAIN pm.configs }

\* C19: the configuration trie is written only at construction.  After any
\* sequence of AddPath and AnalyzePath calls the configuration trie is the one
\* the constructor built, and FindConfigForPath returns for every path the
\* config it returned right after construction.
C19_ConfigTrieWrittenAtConstruction ==
    /\ pm.root = FreshAnalyzer.root
    /\ \A path \in LookupPaths :
          FindConfigForPath(pm, path) = FindConfigForPath(FreshAnalyzer, path)

\* the part of C19 that is about the lookups alone
ConfigLookupsUnchanged ==
    \A path \in LookupPaths :
        FindConfigForPath(pm, path) = FindConfigForPath(FreshAnalyzer, path)

\* the part of C19 that is about AnalyzePath: calls of AnalyzePath alone leave
\* the configuration trie as the constructor built it
AnalyzePathKeepsConfigTrie ==
    (\A c \in seen : c.op = "AnalyzePath") => pm.root = FreshAnalyzer.root


----------------------------------------------------------------------------
(* analyzer.go: the constructors that share the package variable           *)
(* DefaultCollapseConfig.  A node's Config is a pointer: slot 0 is the     *)
(* package variable, slot i the element CollapseConfigs[i].                *)

DefaultConfigPointer == [slot |-> 0]

ConfigPointer(i) == [slot |-> i]

\* *pointer, g the value of the package variable DefaultCollapseConfig
Deref(g, pointer) ==
    IF pointer.slot = 0 THEN g ELSE CollapseConfigs[pointer.slot]

\* pm.addConfig(config)
addConfig(root, g, pointer) ==
    LET segments == Trim(Deref(g, pointer).Prefix)
    IN  IF segments[1] = "" THEN SetConfig(root, <<pointer>>)
        ELSE addConfigWalk(root, segments, pointer)

RECURSIVE addConfigPointersFrom(_, _, _)
addConfigPointersFrom(root, g, i) ==
    IF i > Len(CollapseConfigs) THEN root
    ELSE addConfigPointersFrom(addConfig(root, g, ConfigPointer(i)), g, i + 1)

\* NewPathAnalyzerWithConfigs(CollapseConfigs) of analyzer.go
NewSharedPathAnalyzerWithConfigs(g) ==
    [ root |-> addConfigPointersFrom(
                   addConfig(NewTrieNode, g, DefaultConfigPointer), g, 1) ]

\* createDynamicNode of analyzer.go: the children are dropped, their counts
\* summed, the config inherited
createSharedDynamicNode(node) ==
    SetChildren(node,
        [k \in {DynamicIdentifier} |->
            [ Count    |-> SumCounts(node, DOMAIN node.Children),
              Config   |-> node.Config,
              Children |-> EmptyChildren ]])

\* the loop of analyzer.go's AddPath over the segments, parent the node at
\* position ppos
RECURSIVE addSharedPathLoop(_, _, _, _, _)
addSharedPathLoop(g, trie, ppos, currentConfig, segments) ==
    IF segments = <<>> THEN trie
    ELSE
    LET segment == Head(segments)
        parent0 == NodeAt(trie, ppos)
    IN
    IF HasChild(parent0, WildcardIdentifier)
    THEN SetAt(trie, ppos, IncChild(parent0, WildcardIdentifier))
    ELSE
    LET viaDynamic == HasChild(parent0, DynamicIdentifier)
        pos1    == IF viaDynamic THEN Append(ppos, DynamicIdentifier) ELSE ppos
        parent1 == NodeAt(trie, pos1)
        config1 == IF viaDynamic /\ parent1.Config # <<>>
                   THEN parent1.Config[1] ELSE currentConfig
        withChild ==
            IncChild(IF HasChild(parent1, segment) THEN parent1
                     ELSE PutChild(parent1, segment, NewTrieNode),
                     segment)
    IN
    IF Deref(g, config1).Threshold = 1 /\ ~HasChild(withChild, WildcardIdentifier)
    THEN SetAt(trie, pos1,
               IncChild(createWildcardNode(withChild), WildcardIdentifier))
    ELSE
    LET collapsed ==
            IF /\ Cardinality(DOMAIN withChild.Children)
                     > Deref(g, config1).Threshold
               /\ ~HasChild(withChild, DynamicIdentifier)
            THEN createSharedDynamicNode(withChild)
            ELSE withChild
        key  == IF HasChild(collapsed, DynamicIdentifier)
                THEN DynamicIdentifier ELSE segment
        t2   == SetAt(trie, pos1, collapsed)
        pos2 == Append(pos1, key)
        parent2 == NodeAt(t2, pos2)
        config2 == IF parent2.Config # <<>> THEN parent2.Config[1] ELSE config1
    IN
    IF DOMAIN parent2.Children = {DynamicIdentifier}
    THEN SetAt(t2, pos2, createWildcardNode(parent2))
    ELSE addSharedPathLoop(g, t2, pos2, config2, Tail(segments))

\* pm.AddPath(path) of analyzer.go: the analyzer the call leaves
AddSharedPath(a, g, path) ==
    LET segments == Trim(path)
    IN  IF Len(segments) = 0 \/ segments[1] = "" THEN a
        ELSE [ root |-> addSharedPathLoop(g, a.root, <<>>, a.root.Config[1],
                                          segments) ]

\* pm.FindConfigForPath(path) of analyzer.go: the config pointed to
FindSharedConfigForPath(a, g, path) ==
    LET segments == Trim(path)
    IN  IF segments[1] = "" THEN Deref(g, a.root.Config[1])
        ELSE Deref(g, findConfigWalk(a.root, segments, a.root.Config)[1])

----------------------------------------------------------------------------
(* A caller that constructs two analyzers and inserts paths into both      *)

MaxInstanceCalls == 4

InstanceNames == <<"first", "second">>

InstanceThresholds == Thresholds \cup {DefaultThreshold}

InstancePaths ==
    { Path(<<"a">>), Path(<<"b">>), Path(<<"app", "b">>), Path(<<"home", "a">>) }

\* matchers[name] = matcher
PutMatcher(name, matcher) ==
    [n \in DOMAIN matchers \cup {name} |->
        IF n = name THEN matcher ELSE matchers[n]]

\* matcher := NewPathAnalyzer(threshold) of analyzer.go
CallNewSharedPathAnalyzer(threshold) ==
    /\ Cardinality(DOMAIN matchers) < Len(InstanceNames)
    /\ LET name == InstanceNames[Cardinality(DOMAIN matchers) + 1]
           g    == [Prefix |-> shared.Prefix, Threshold |-> threshold]
       IN  /\ shared' = g
           /\ matchers' = PutMatcher(name, NewSharedPathAnalyzerWithConfigs(g))
           /\ last' = [op |-> "NewPathAnalyzer", path |-> <<>>, id |-> name,
                       result |-> <<>>]
    /\ ncalls' = ncalls + 1
    /\ UNCHANGED <<pm, seen, opens, endpoints, execs, compared, marked>>

\* matchers[name].AddPath(path) of analyzer.go
CallAddSharedPath(name, path) ==
    /\ name \in DOMAIN matchers
    /\ matchers' = PutMatcher(name, AddSharedPath(matchers[name], shared, path))
    /\ last' = [op |-> "AddPath", path |-> path, id |-> name, result |-> <<>>]
    /\ ncalls' = ncalls + 1
    /\ UNCHANGED <<pm, seen, opens, shared, endpoints, execs, compared, marked>>

NextInstances ==
    \/ \E threshold \in InstanceThresholds :
          ncalls < MaxInstanceCalls /\ CallNewSharedPathAnalyzer(threshold)
    \/ \E name \in {"first", "second"}, path \in InstancePaths :
          ncalls < MaxInstanceCalls /\ CallAddSharedPath(name, path)

InitInstances == Fresh({NewPathAnalyzer(DefaultThreshold)})

SpecInstances == InitInstances /\ [][NextInstances]_vars

\* C20: analyzer instances share no mutable state.  A call that constructs
\* the second analyzer, or that inserts a path into it, changes neither the
\* threshold the first analyzer applies at any path nor the trie an AddPath
\* call on the first analyzer leaves.
C20_NoSharedMutableState ==
    [][ ( /\ "first" \in DOMAIN matchers
          /\ ncalls' = ncalls + 1
          /\ last'.id = "second" )
        => \A path \in InstancePaths :
              /\ FindSharedConfigForPath(matchers'["first"], shared', path)
                    = FindSharedConfigForPath(matchers["first"], shared, path)
              /\ AddSharedPath(matchers'["first"], shared', path)
                    = AddSharedPath(matchers["first"], shared, path) ]_vars

\* the part of C20 that is about insertions into the second analyzer
InsertionsKeepFirstAnalyzer ==
    [][ ( /\ "first" \in DOMAIN matchers
          /\ ncalls' = ncalls + 1
          /\ last'.id = "second"
          /\ last'.op = "AddPath" )
        => \A path \in InstancePaths :
              /\ FindSharedConfigForPath(matchers'["first"], shared', path)
                    = FindSharedConfigForPath(matchers["first"], shared, path)
              /\ AddSharedPath(matchers'["first"], shared', path)
                    = AddSharedPath(matchers["first"], shared, path) ]_vars


----------------------------------------------------------------------------
(* AnalyzeEndpoints (analyze_endpoints.go).  The endpoint string           *)
(* ":<port><path>" is [Port, Path]: Port the text between the leading ':'  *)
(* and the first '/', Path the rest, the empty string when there is no     *)
(* '/'.  An HTTPEndpoint is [Endpoint, Methods, Direction].                *)

EndpointDynamicThreshold == 100

NoPath == <<"">>

RootPath == <<"", "">>

isWildcardPort(port) == port = "0"

splitEndpointPortAndPath(endpoint) ==
    [ port     |-> endpoint.Port,
      pathPart |-> IF endpoint.Path = NoPath THEN RootPath ELSE endpoint.Path ]

\* the endpoint is never rewritten
keepPort(endpoint, wildcardPort) == endpoint

rewritePort(endpoint, wildcardPort) ==
    IF wildcardPort = "" THEN endpoint
    ELSE IF ~isWildcardPort(splitEndpointPortAndPath(endpoint).port)
    THEN [ Port |-> wildcardPort,
           Path |-> splitEndpointPortAndPath(endpoint).pathPart ]
    ELSE endpoint

\* the detection that looks at the first endpoint alone
detectWildcardPortAtHead(items) ==
    IF isWildcardPort(splitEndpointPortAndPath(items[1].Endpoint).port)
    THEN "0" ELSE ""

\* the loop that detects a wildcard port in the input
detectWildcardPort(items) ==
    IF \E i \in 1..Len(items) :
          isWildcardPort(splitEndpointPortAndPath(items[i].Endpoint).port)
    THEN "0" ELSE ""

\* the ports net/url accepts in "http://:<port><path>": decimal digits
NumericPorts == {"0", "80", "81"}

\* isValidURL("http://" + urlString) = nil
isValidURL(endpoint) == endpoint.Port \in NumericPorts

\* the key without the direction
getEndpointKeyOfEndpoint(e) == <<e.Endpoint, "">>

\* fmt.Sprintf("%s|%s", endpoint.Endpoint, endpoint.Direction): no port, path
\* or direction holds a '|', so the key is the pair
getEndpointKey(e) == <<e.Endpoint, e.Direction>>

\* the byte order of the HTTP methods
MethodOrder == <<"GET", "POST", "PUT">>

\* MergeStrings(a, b): the sorted set union of the two lists
MergeStrings(a, b) ==
    SelectSeq(MethodOrder, LAMBDA x : x \in Range(a) \cup Range(b))

\* AnalyzeURL(urlString, analyzer): the outcomes [url, err, pm]
AnalyzeURL(endpoint, a) ==
    IF ~isValidURL(endpoint)
    THEN {[url |-> endpoint, err |-> TRUE, pm |-> a]}
    ELSE { [ url |-> [ Port |-> endpoint.Port,
                       Path |-> IF o.result = <<"", ".">> THEN RootPath
                                ELSE o.result ],
             err |-> FALSE,
             pm  |-> o.pm ]
           : o \in AnalyzePath(a, endpoint.Path, endpoint.Port) }

\* the first pass, from endpoints[i] on: the analyzers it may leave
RECURSIVE primeEndpoints(_, _, _, _)
primeEndpoints(a, items, i, wildcardPort) ==
    IF i > Len(items) THEN {a}
    ELSE UNION { primeEndpoints(o.pm, items, i + 1, wildcardPort)
                 : o \in AnalyzeURL(rewritePort(items[i].Endpoint, wildcardPort), a) }

\* newEndpoints[i].Methods = methods
SetMethods(list, i, methods) ==
    [ j \in 1..Len(list) |->
        IF j = i THEN [ Endpoint  |-> list[j].Endpoint,
                        Methods   |-> methods,
                        Direction |-> list[j].Direction ]
        ELSE list[j] ]

\* ProcessEndpoint(endpoint, analyzer, newEndpoints): the outcomes
\* [processed, err, newEndpoints, pm], processed <<>> when nil
ProcessEndpoint(endpoint, a, newEndpoints) ==
    { IF o.err
      THEN [processed |-> <<>>, err |-> TRUE, newEndpoints |-> newEndpoints,
            pm |-> o.pm]
      ELSE IF o.url # endpoint.Endpoint
      THEN LET generalized == [ Endpoint  |-> o.url,
                                Methods   |-> endpoint.Methods,
                                Direction |-> endpoint.Direction ]
               found == { i \in 1..Len(newEndpoints) :
                             getEndpointKey(newEndpoints[i])
                                = getEndpointKey(generalized) }
           IN  IF found # {}
               THEN LET i == CHOOSE j \in found : \A k \in found : j <= k
                    IN  [ processed    |-> <<>>,
                          err          |-> FALSE,
                          newEndpoints |->
                              SetMethods(newEndpoints, i,
                                  MergeStrings(newEndpoints[i].Methods,
                                               endpoint.Methods)),
                          pm           |-> o.pm ]
               ELSE [processed |-> <<generalized>>, err |-> FALSE,
                     newEndpoints |-> newEndpoints, pm |-> o.pm]
      ELSE [processed |-> <<endpoint>>, err |-> FALSE,
            newEndpoints |-> newEndpoints, pm |-> o.pm]
      : o \in AnalyzeURL(endpoint.Endpoint, a) }

\* the second pass, from endpoints[i] on: the outcomes [newEndpoints, pm]
RECURSIVE processEndpoints(_, _, _, _, _)
processEndpoints(a, items, i, wildcardPort, newEndpoints) ==
    IF i > Len(items) THEN {[newEndpoints |-> newEndpoints, pm |-> a]}
    ELSE UNION {
        processEndpoints(o.pm, items, i + 1, wildcardPort,
                         o.newEndpoints \o o.processed)
        : o \in ProcessEndpoint(
                   [ Endpoint  |-> rewritePort(items[i].Endpoint, wildcardPort),
                     Methods   |-> items[i].Methods,
                     Direction |-> items[i].Direction ],
                   a, newEndpoints) }

\* the loop of MergeDuplicateEndpoints from endpoints[i] on; seen maps a key
\* to the index in newEndpoints of the endpoint stored under it
RECURSIVE mergeDuplicatesFrom(_, _, _, _)
mergeDuplicatesFrom(list, i, seenKeys, newEndpoints) ==
    IF i > Len(list) THEN newEndpoints
    ELSE
    LET endpoint == list[i]
        key == getEndpointKey(endpoint)
        split == splitEndpointPortAndPath(endpoint.Endpoint)
        wildcardKey == <<[Port |-> "0", Path |-> split.pathPart],
                         endpoint.Direction>>
        MergeInto(k) ==
            mergeDuplicatesFrom(list, i + 1, seenKeys,
                SetMethods(newEndpoints, seenKeys[k],
                    MergeStrings(newEndpoints[seenKeys[k]].Methods,
                                 endpoint.Methods)))
    IN  IF key \in DOMAIN seenKeys THEN MergeInto(key)
        ELSE IF ~isWildcardPort(split.port) /\ wildcardKey \in DOMAIN seenKeys
        THEN MergeInto(wildcardKey)
        ELSE mergeDuplicatesFrom(list, i + 1,
                 MapPut(seenKeys, key, Len(newEndpoints) + 1),
                 Append(newEndpoints, endpoint))

\* the list is returned as it is, duplicates included
keepDuplicateEndpoints(list) == list

MergeDuplicateEndpoints(list) ==
    mergeDuplicatesFrom(list, 1, EmptyChildren, <<>>)

\* AnalyzeEndpoints(endpoints, analyzer): the outcomes [out, pm]
AnalyzeEndpoints(in, a) ==
    IF Len(in.items) = 0 THEN {[out |-> NilList, pm |-> a]}
    ELSE LET wildcardPort == detectWildcardPort(in.items)
         IN  UNION { { [ out |-> [ isNil |-> FALSE,
                                   items |-> MergeDuplicateEndpoints(o.newEndpoints) ],
                         pm  |-> o.pm ]
                       : o \in processEndpoints(primed, in.items, 1,
                                                wildcardPort, <<>>) }
                     : primed \in primeEndpoints(a, in.items, 1, wildcardPort) }


----------------------------------------------------------------------------
(* A caller that hands a list of endpoints to AnalyzeEndpoints or to       *)
(* MergeDuplicateEndpoints                                                 *)

MaxEndpoints == 3

\* the text before the first '/' of ":::invalid-u323@!#rl:::", which net/url
\* rejects
InvalidPort == "::invalid-u323@!#rl:::"

EndpointPaths ==
    { Path(<<"users", u>>) : u \in {"1", "2", "3", DynamicIdentifier} }

EndpointStrings ==
    { [Port |-> p, Path |-> q] : p \in NumericPorts, q \in EndpointPaths }
        \cup { [Port |-> InvalidPort, Path |-> NoPath] }

MethodLists == { <<"GET">>, <<"POST">>, <<"POST", "GET">> }

Directions == { "inbound", "outbound" }

HTTPEndpoints ==
    [ Endpoint : EndpointStrings, Methods : MethodLists, Direction : Directions ]

\* the endpoints that differ in their endpoint strings alone
PlainEndpoints ==
    [ Endpoint : EndpointStrings, Methods : {<<"GET">>}, Direction : {"outbound"} ]

\* every list of fewer than MaxEndpoints endpoints, and the lists of
\* MaxEndpoints plain endpoints
EndpointLists ==
    { [isNil |-> FALSE, items |-> s] :
          s \in UNION {ListsOf(HTTPEndpoints, k) : k \in 0..(MaxEndpoints - 1)}
                   \cup ListsOf(PlainEndpoints, MaxEndpoints) }

EndpointThresholds == Thresholds \cup {EndpointDynamicThreshold}

InitEndpoints == Fresh({NewPathAnalyzer(t) : t \in EndpointThresholds})

\* out := AnalyzeEndpoints(&in, pm)
CallAnalyzeEndpoints(in) ==
    /\ ~endpoints.called
    /\ \E o \in AnalyzeEndpoints(in, pm) :
          /\ pm' = o.pm
          /\ endpoints' = [called |-> TRUE, op |-> "AnalyzeEndpoints",
                           in |-> in, out |-> o.out]
    /\ ncalls' = ncalls + 1
    /\ UNCHANGED <<last, seen, opens, shared, matchers, execs, compared, marked>>

\* out := MergeDuplicateEndpoints(in)
CallMergeDuplicateEndpoints(in) ==
    /\ ~endpoints.called
    /\ endpoints' = [called |-> TRUE, op |-> "MergeDuplicateEndpoints",
                     in |-> in,
                     out |-> [isNil |-> Len(in.items) = 0,
                              items |-> MergeDuplicateEndpoints(in.items)]]
    /\ ncalls' = ncalls + 1
    /\ UNCHANGED <<pm, last, seen, opens, shared, matchers, execs, compared, marked>>

NextEndpoints ==
    \/ ~endpoints.called /\ \E in \in EndpointLists : CallAnalyzeEndpoints(in)
    \/ ~endpoints.called /\ \E in \in EndpointLists : CallMergeDuplicateEndpoints(in)

SpecEndpoints == InitEndpoints /\ [][NextEndpoints]_vars

\* the last call was AnalyzeEndpoints
EndpointsAnalyzed == endpoints.called /\ endpoints.op = "AnalyzeEndpoints"

\* the last call was MergeDuplicateEndpoints
EndpointsMerged == endpoints.called /\ endpoints.op = "MergeDuplicateEndpoints"


----------------------------------------------------------------------------
(* Properties of AnalyzeEndpoints and MergeDuplicateEndpoints              *)

\* the port of the endpoint string
PortOf(e) == splitEndpointPortAndPath(e.Endpoint).port

\* some input endpoint has port 0
HasWildcardInput ==
    \E i \in 1..Len(endpoints.in.items) : PortOf(endpoints.in.items[i]) = "0"

\* the methods of the input endpoints that satisfy the test
MethodsOfInputs(Test(_)) ==
    UNION { Range(endpoints.in.items[i].Methods) :
              i \in { j \in 1..Len(endpoints.in.items) :
                         Test(endpoints.in.items[j]) } }

\* C21: wildcard-port normalization.  If some input endpoint has port 0,
\* wherever it is in the input, every endpoint of the output of
\* AnalyzeEndpoints has port 0.  If none has, every output endpoint has the
\* port of an input endpoint and only methods of the input endpoints on that
\* port, and every port of a valid input endpoint is the port of an output
\* endpoint.
C21_WildcardPortNormalization ==
    EndpointsAnalyzed =>
        LET in  == endpoints.in.items
            out == endpoints.out.items
        IN  /\ HasWildcardInput =>
                  \A k \in 1..Len(out) : PortOf(out[k]) = "0"
            /\ ~HasWildcardInput =>
                  /\ \A k \in 1..Len(out) :
                        /\ \E i \in 1..Len(in) : PortOf(in[i]) = PortOf(out[k])
                        /\ Range(out[k].Methods) \subseteq
                              MethodsOfInputs(LAMBDA x : PortOf(x) = PortOf(out[k]))
                  /\ \A i \in 1..Len(in) :
                        isValidURL(in[i].Endpoint)
                        => \E k \in 1..Len(out) : PortOf(out[k]) = PortOf(in[i])

\* an endpoint on port 80 came before the endpoint on port 0, and the output
\* holds what became of both
C21_Witness ==
    /\ EndpointsAnalyzed
    /\ Len(endpoints.in.items) = 2
    /\ PortOf(endpoints.in.items[1]) = "80"
    /\ PortOf(endpoints.in.items[2]) = "0"
    /\ Len(endpoints.out.items) = 2


\* ":<port>/users/<user>" with the methods and the direction
UserEndpoint(port, user, methods, direction) ==
    [ Endpoint  |-> [Port |-> port, Path |-> Path(<<"users", user>>)],
      Methods   |-> methods,
      Direction |-> direction ]

\* C22: scenario S4.  AnalyzeEndpoints on [{:0/users/1, [GET], outbound},
\* {:80/users/2, [POST], outbound}] with a fresh analyzer at the endpoint
\* threshold returns exactly one entry, {:0/users/⋯, [GET, POST], outbound}.
C22_ScenarioS4 ==
    ( /\ EndpointsAnalyzed
      /\ pm.defaultCfg.Threshold = EndpointDynamicThreshold
      /\ endpoints.in.items =
            << UserEndpoint("0", "1", <<"GET">>, "outbound"),
               UserEndpoint("80", "2", <<"POST">>, "outbound") >> )
    => endpoints.out.items =
          << UserEndpoint("0", DynamicIdentifier, <<"GET", "POST">>, "outbound") >>

\* C22, amended: in scenario S4 AnalyzeEndpoints returns two entries, both on
\* port 0, with the paths and the methods they were given: the two children of
\* /users do not exceed the threshold.
C22_ScenarioS4TwoEntries ==
    ( /\ EndpointsAnalyzed
      /\ pm.defaultCfg.Threshold = EndpointDynamicThreshold
      /\ endpoints.in.items =
            << UserEndpoint("0", "1", <<"GET">>, "outbound"),
               UserEndpoint("80", "2", <<"POST">>, "outbound") >> )
    => endpoints.out.items =
          << UserEndpoint("0", "1", <<"GET">>, "outbound"),
             UserEndpoint("0", "2", <<"POST">>, "outbound") >>


\* scenario S4 has been run
C22_Witness ==
    /\ EndpointsAnalyzed
    /\ pm.defaultCfg.Threshold = EndpointDynamicThreshold
    /\ endpoints.in.items =
          << UserEndpoint("0", "1", <<"GET">>, "outbound"),
             UserEndpoint("80", "2", <<"POST">>, "outbound") >>

\* the two endpoints of scenario S3, in one order or the other
ScenarioS3Inputs ==
    { << UserEndpoint("80", DynamicIdentifier, <<"GET">>, d),
         UserEndpoint("80", "1", <<"POST">>, d) >> : d \in Directions }
    \cup
    { << UserEndpoint("80", "1", <<"POST">>, d),
         UserEndpoint("80", DynamicIdentifier, <<"GET">>, d) >> : d \in Directions }

\* C23: an input endpoint whose path holds ⋯ absorbs the literal endpoints at
\* the same position.  With a default threshold above 1, AnalyzeEndpoints on
\* {:80/users/⋯, [GET]} and {:80/users/1, [POST]} of the same direction, in
\* either order, returns exactly one entry, :80/users/⋯ with the methods
\* [GET, POST].
C23_DynamicEndpointAbsorbsLiteral ==
    ( /\ EndpointsAnalyzed
      /\ pm.defaultCfg.Threshold > 1
      /\ endpoints.in.items \in ScenarioS3Inputs )
    => endpoints.out.items =
          << UserEndpoint("80", DynamicIdentifier, <<"GET", "POST">>,
                          endpoints.in.items[1].Direction) >>

\* the literal endpoint came first and was absorbed at the endpoint threshold
C23_Witness ==
    /\ EndpointsAnalyzed
    /\ pm.defaultCfg.Threshold = EndpointDynamicThreshold
    /\ endpoints.in.items \in ScenarioS3Inputs
    /\ endpoints.in.items[1].Methods = <<"POST">>
    /\ Len(endpoints.out.items) = 1


\* the path of the endpoint string
PathOf(e) == splitEndpointPortAndPath(e.Endpoint).pathPart

\* C24: the output of MergeDuplicateEndpoints never holds both an endpoint on
\* port 0 and an endpoint on a specific port with the same path and the same
\* direction, whatever the order of the two in the input.
C24_WildcardPortAbsorbsSpecific ==
    EndpointsMerged =>
        \A i, j \in 1..Len(endpoints.out.items) :
            LET x == endpoints.out.items[i]
                y == endpoints.out.items[j]
            IN  ~ ( /\ PortOf(x) = "0"
                    /\ PortOf(y) # "0"
                    /\ PathOf(x) = PathOf(y)
                    /\ x.Direction = y.Direction )

\* C24 for the inputs in which the endpoint on port 0 comes before the
\* endpoints on specific ports with its path and direction
WildcardFirstAbsorbsSpecific ==
    ( /\ EndpointsMerged
      /\ \A i, j \in 1..Len(endpoints.in.items) :
            LET x == endpoints.in.items[i]
                y == endpoints.in.items[j]
            IN  ( /\ PortOf(x) = "0"
                  /\ PortOf(y) # "0"
                  /\ PathOf(x) = PathOf(y)
                  /\ x.Direction = y.Direction ) => i < j )
    => \A i, j \in 1..Len(endpoints.out.items) :
            LET x == endpoints.out.items[i]
                y == endpoints.out.items[j]
            IN  ~ ( /\ PortOf(x) = "0"
                    /\ PortOf(y) # "0"
                    /\ PathOf(x) = PathOf(y)
                    /\ x.Direction = y.Direction )


\* C25: the output of AnalyzeEndpoints has at most one entry for each key
\* (Endpoint, Direction), and endpoints of different directions are never
\* merged: the methods of an output entry are methods of input endpoints with
\* the direction of the entry.
C25_OneEntryPerKey ==
    EndpointsAnalyzed =>
        LET out == endpoints.out.items
        IN  /\ \A i, j \in 1..Len(out) :
                  ( /\ out[i].Endpoint = out[j].Endpoint
                    /\ out[i].Direction = out[j].Direction ) => i = j
            /\ \A k \in 1..Len(out) :
                  Range(out[k].Methods) \subseteq
                      MethodsOfInputs(LAMBDA x : x.Direction = out[k].Direction)

\* two endpoints of different directions generalize to the same endpoint string
\* and are kept apart
C25_Witness ==
    /\ EndpointsAnalyzed
    /\ Len(endpoints.in.items) = 2
    /\ endpoints.in.items[1].Direction # endpoints.in.items[2].Direction
    /\ endpoints.in.items[1].Endpoint # endpoints.in.items[2].Endpoint
    /\ endpoints.in.items[1].Methods # endpoints.in.items[2].Methods
    /\ Len(endpoints.out.items) = 2
    /\ endpoints.out.items[1].Endpoint = endpoints.out.items[2].Endpoint


\* the methods are in byte order, each once
SortedMethods(methods) ==
    methods = SelectSeq(MethodOrder, LAMBDA x : x \in Range(methods))

\* C26: method set purity.  The Methods of every endpoint of the output of
\* AnalyzeEndpoints are sorted and hold no duplicates, whether the entry comes
\* from a merge or is one input endpoint passed through.
C26_MethodSetPurity ==
    EndpointsAnalyzed =>
        \A k \in 1..Len(endpoints.out.items) :
            SortedMethods(endpoints.out.items[k].Methods)

\* C26 for the entries that come from a merge of endpoints with different
\* methods
MergedMethodsSorted ==
    EndpointsAnalyzed =>
        \A k \in 1..Len(endpoints.out.items) :
            ( \A i \in 1..Len(endpoints.in.items) :
                 endpoints.in.items[i].Methods # endpoints.out.items[k].Methods )
            => SortedMethods(endpoints.out.items[k].Methods)


\* the list without its elements that are not valid URLs
ValidEndpoints(items) ==
    SelectSeq(items, LAMBDA x : isValidURL(x.Endpoint))

\* the analyzer AnalyzeEndpoints was given
GivenAnalyzer == newAnalyzer(pm.defaultCfg, pm.configs)

\* C27: an endpoint whose URL fails to parse is skipped.  The output of
\* AnalyzeEndpoints and the trie it leaves are the ones the call has for the
\* input without its invalid endpoints, and no output entry has the endpoint
\* string of an invalid input.
C27_InvalidUrlSkipped ==
    ( /\ EndpointsAnalyzed
      /\ ValidEndpoints(endpoints.in.items) # endpoints.in.items )
    => /\ \E o \in AnalyzeEndpoints(
                      [isNil |-> FALSE,
                       items |-> ValidEndpoints(endpoints.in.items)],
                      GivenAnalyzer) :
             /\ o.out.items = endpoints.out.items
             /\ o.pm = pm

\* C27 for the inputs without an endpoint on port 0
InvalidUrlSkippedWithoutWildcard ==
    ( /\ EndpointsAnalyzed
      /\ ~HasWildcardInput
      /\ ValidEndpoints(endpoints.in.items) # endpoints.in.items )
    => /\ \E o \in AnalyzeEndpoints(
                      [isNil |-> FALSE,
                       items |-> ValidEndpoints(endpoints.in.items)],
                      GivenAnalyzer) :
             /\ o.out.items = endpoints.out.items
             /\ o.pm = pm


----------------------------------------------------------------------------
(* AnalyzeExecs and the ArgAnalyzer.  The strings of an ExecCall are       *)
(* sequences of characters, so that their concatenation is the             *)
(* concatenation of sequences.  An ExecCall is [Path, Args, Envs,          *)
(* ParentPath], an ArgNode [Children], a nil *ArgNode <<>>.                *)

\* the string "⋯"
DynamicArg == <<DynamicIdentifier>>

NewArgNode == [Children |-> EmptyChildren]

NewArgAnalyzer(threshold) == [roots |-> EmptyChildren, threshold |-> threshold]

\* the loop of AddArgs over the arguments: the node with the chain of args
\* inserted below it
RECURSIVE addArgsFrom(_, _)
addArgsFrom(node, args) ==
    IF args = <<>> THEN node
    ELSE LET child == IF Head(args) \in DOMAIN node.Children
                      THEN node.Children[Head(args)] ELSE NewArgNode
         IN  [Children |-> MapPut(node.Children, Head(args),
                                  addArgsFrom(child, Tail(args)))]

\* an AddArgs that stores the marker in place of every argument
addMarkerArgs(a, args, execPath) ==
    IF Len(args) = 0 THEN a
    ELSE LET root == IF execPath \in DOMAIN a.roots THEN a.roots[execPath]
                     ELSE NewArgNode
         IN  [ roots     |-> MapPut(a.roots, execPath,
                                 addArgsFrom(root, [i \in DOMAIN args |-> DynamicArg])),
               threshold |-> a.threshold ]

\* a.AddArgs(args, execPath)
AddArgs(a, args, execPath) ==
    IF Len(args) = 0 THEN a
    ELSE LET root == IF execPath \in DOMAIN a.roots THEN a.roots[execPath]
                     ELSE NewArgNode
         IN  [ roots     |-> MapPut(a.roots, execPath, addArgsFrom(root, args)),
               threshold |-> a.threshold ]

\* the loop of AnalyzeArgs from args[i] on, node <<>> when nil
RECURSIVE analyzeArgsFrom(_, _, _, _)
analyzeArgsFrom(threshold, node, args, i) ==
    IF i > Len(args) THEN <<>>
    ELSE IF node = <<>>
    THEN <<args[i]>> \o analyzeArgsFrom(threshold, node, args, i + 1)
    ELSE
    LET children == node[1].Children
        arg == args[i]
    IN  IF Cardinality(DOMAIN children) > threshold
        THEN <<DynamicArg>> \o
             analyzeArgsFrom(threshold,
                 IF DynamicArg \in DOMAIN children THEN <<children[DynamicArg]>>
                 ELSE IF arg \in DOMAIN children THEN <<children[arg]>>
                 ELSE <<>>,
                 args, i + 1)
        ELSE <<arg>> \o
             analyzeArgsFrom(threshold,
                 IF arg \in DOMAIN children THEN <<children[arg]>> ELSE <<>>,
                 args, i + 1)

\* a.AnalyzeArgs(args, execPath)
AnalyzeArgs(a, args, execPath) ==
    IF Len(args) = 0 THEN args
    ELSE IF execPath \notin DOMAIN a.roots THEN args
    ELSE analyzeArgsFrom(a.threshold, <<a.roots[execPath]>>, args, 1)

\* the concatenation of the strings of the list
RECURSIVE Concat(_)
Concat(strings) ==
    IF strings = <<>> THEN <<>> ELSE Head(strings) \o Concat(Tail(strings))

\* exec.String(): the concatenation of Path, Args, Envs and ParentPath
String(exec) ==
    exec.Path \o Concat(exec.Args) \o Concat(exec.Envs) \o exec.ParentPath

\* the first pass of AnalyzeExecs, from execs[i] on
RECURSIVE addAllArgs(_, _, _)
addAllArgs(a, items, i) ==
    IF i > Len(items) THEN a
    ELSE addAllArgs(AddArgs(a, items[i].Args, items[i].Path), items, i + 1)

collapsedExec(a, exec) ==
    [ Path       |-> exec.Path,
      Args       |-> AnalyzeArgs(a, exec.Args, exec.Path),
      Envs       |-> exec.Envs,
      ParentPath |-> exec.ParentPath ]

\* the second pass of AnalyzeExecs, from execs[i] on: dedupMap
RECURSIVE dedupExecs(_, _, _, _)
dedupExecs(a, items, i, dedupMap) ==
    IF i > Len(items) THEN dedupMap
    ELSE LET collapsed == collapsedExec(a, items[i])
             key == String(collapsed)
         IN  dedupExecs(a, items, i + 1,
                 IF key \in DOMAIN dedupMap THEN dedupMap
                 ELSE MapPut(dedupMap, key, collapsed))

\* slices.SortedFunc(maps.Values(dedupMap), by String()): the keys of
\* dedupMap are the strings of its values
RECURSIVE SortedByString(_)
SortedByString(dedupMap) ==
    IF DOMAIN dedupMap = {} THEN <<>>
    ELSE LET least == CHOOSE p \in DOMAIN dedupMap :
                          \A q \in DOMAIN dedupMap \ {p} : PathLess(p, q)
         IN  <<dedupMap[least]>>
                 \o SortedByString([k \in DOMAIN dedupMap \ {least} |-> dedupMap[k]])

\* AnalyzeExecs(execs, threshold): [out, analyzer], analyzer the ArgAnalyzer
\* after the first pass
AnalyzeExecs(in, threshold) ==
    IF in.isNil THEN [out |-> NilList, analyzer |-> NewArgAnalyzer(threshold)]
    ELSE LET a == addAllArgs(NewArgAnalyzer(threshold), in.items, 1)
             sorted == SortedByString(dedupExecs(a, in.items, 1, EmptyChildren))
         IN  [ out      |-> [isNil |-> sorted = <<>>, items |-> sorted],
               analyzer |-> a ]

----------------------------------------------------------------------------
(* A caller that hands a list of execs to AnalyzeExecs                     *)

MaxExecs == 3

\* ExecCalls{Path: path, Args: args}
Exec(path, args) ==
    [Path |-> path, Args |-> args, Envs |-> <<>>, ParentPath |-> <<>>]

\* the argument values "1", "2", "3"
ArgValues == { <<"1">>, <<"2">>, <<"3">> }

\* the calls of the binary "a" with up to two of the argument values
PlainExecs ==
    { Exec(<<"a">>, args) :
        args \in {<<>>} \cup { <<x>> : x \in ArgValues }
                    \cup { <<x, y>> : x, y \in ArgValues } }

\* a call of another binary, calls with an argument "⋯", a call with the
\* argument "12", and calls with an environment variable or a parent path
OtherExecs ==
    { Exec(<<"b">>, << <<"1">> >>),
      Exec(<<"a">>, <<DynamicArg>>),
      Exec(<<"a">>, <<DynamicArg, <<"1">> >>),
      Exec(<<"a">>, << <<"1", "2">> >>),
      [Path |-> <<"a">>, Args |-> <<>>, Envs |-> << <<"1">> >>, ParentPath |-> <<>>],
      [Path |-> <<"a">>, Args |-> <<>>, Envs |-> <<>>, ParentPath |-> <<"1">>] }

ExecLists ==
    {NilList} \cup
    { [isNil |-> FALSE, items |-> s] :
          s \in UNION {ListsOf(PlainExecs \cup OtherExecs, k) : k \in 0..MaxExecs} }

\* out := AnalyzeExecs(in, threshold)
CallAnalyzeExecs(in, threshold) ==
    /\ ~execs.called
    /\ execs' = [ called    |-> TRUE,
                  in        |-> in,
                  threshold |-> threshold,
                  analyzer  |-> AnalyzeExecs(in, threshold).analyzer,
                  out       |-> AnalyzeExecs(in, threshold).out ]
    /\ ncalls' = ncalls + 1
    /\ UNCHANGED <<pm, last, seen, opens, shared, matchers, endpoints, compared, marked>>

NextExecs ==
    /\ ~execs.called
    /\ \E in \in ExecLists, threshold \in Thresholds :
           CallAnalyzeExecs(in, threshold)

InitExecs == Fresh({NewPathAnalyzer(DefaultThreshold)})

SpecExecs == InitExecs /\ [][NextExecs]_vars

ExecsAnalyzed == execs.called /\ ~execs.in.isNil


----------------------------------------------------------------------------
(* C28: argument-position collapse                                         *)

\* the input execs of the executable path that have an argument position i
InputsAt(path, i) ==
    { k \in 1..Len(execs.in.items) :
        /\ execs.in.items[k].Path = path
        /\ Len(execs.in.items[k].Args) >= i }

\* the distinct values observed at position i among the inputs of the path
ValuesAt(path, i) == { execs.in.items[k].Args[i] : k \in InputsAt(path, i) }

OutputsAt(path, i) ==
    { k \in 1..Len(execs.out.items) :
        /\ execs.out.items[k].Path = path
        /\ Len(execs.out.items[k].Args) >= i }

ExecPathsOf(items) == { items[k].Path : k \in 1..Len(items) }

ArgPositionsOf(items) == UNION { DOMAIN items[k].Args : k \in 1..Len(items) }

PositionCollapse(path, i) ==
    IF Cardinality(ValuesAt(path, i)) > execs.threshold
    THEN \A k \in OutputsAt(path, i) : execs.out.items[k].Args[i] = DynamicArg
    ELSE \A k \in OutputsAt(path, i) : execs.out.items[k].Args[i] \in ValuesAt(path, i)

\* C28: for each executable Path and argument position i, if the number of
\* distinct values at position i among the input ExecCalls of that Path
\* exceeds the threshold, every output ExecCall of that Path has ⋯ at
\* position i, and otherwise the values at position i are literal input values
C28_ArgumentPositionCollapse ==
    ExecsAnalyzed =>
        \A path \in ExecPathsOf(execs.in.items) :
            \A i \in ArgPositionsOf(execs.in.items) : PositionCollapse(path, i)

\* the same for the first argument position only, where the values of the
\* position are the children of the root of the Path
FirstPositionCollapse ==
    ExecsAnalyzed =>
        \A path \in ExecPathsOf(execs.in.items) : PositionCollapse(path, 1)


----------------------------------------------------------------------------
(* C29: the marker is never stored in the argument trie                    *)

\* no ArgNode of the subtree has a child keyed ⋯
RECURSIVE NoDynamicArgChild(_)
NoDynamicArgChild(node) ==
    /\ DynamicArg \notin DOMAIN node.Children
    /\ \A arg \in DOMAIN node.Children : NoDynamicArgChild(node.Children[arg])

\* no input ExecCall has an argument ⋯
NoDynamicArgInput ==
    \A k \in 1..Len(execs.in.items) :
        \A i \in DOMAIN execs.in.items[k].Args : execs.in.items[k].Args[i] # DynamicArg

\* C29: after the AddArgs calls of AnalyzeExecs no ArgNode of the argument
\* trie has a child keyed ⋯
C29_MarkerNeverStoredInArgTrie ==
    ExecsAnalyzed =>
        \A path \in DOMAIN execs.analyzer.roots :
            NoDynamicArgChild(execs.analyzer.roots[path])


\* C29 as amended: AddArgs stores the arguments as they are given, so after
\* the AddArgs calls of AnalyzeExecs an ArgNode has a child keyed ⋯ exactly
\* when an input ExecCall has an argument ⋯; a ⋯ that AnalyzeArgs emits for
\* a collapsed position is not stored
C29_MarkerStoredOnlyFromInput ==
    ExecsAnalyzed =>
        (NoDynamicArgInput <=>
            \A path \in DOMAIN execs.analyzer.roots :
                NoDynamicArgChild(execs.analyzer.roots[path]))

\* a position collapsed in the output while no input argument is ⋯
C29_Witness ==
    /\ ExecsAnalyzed
    /\ NoDynamicArgInput
    /\ \E k \in 1..Len(execs.out.items) :
           \E i \in DOMAIN execs.out.items[k].Args :
               execs.out.items[k].Args[i] = DynamicArg
    /\ \A path \in DOMAIN execs.analyzer.roots :
           NoDynamicArgChild(execs.analyzer.roots[path])


----------------------------------------------------------------------------
(* C30: deduplication and order of the output of AnalyzeExecs              *)

\* the collapsed ExecCall of the k-th input: its Path, collapsed Args, Envs
\* and ParentPath
CollapsedInput(k) == collapsedExec(execs.analyzer, execs.in.items[k])

\* the output entries that represent the k-th input: the entries stored
\* under the key of its collapsed ExecCall
RepresentedBy(k) ==
    { i \in 1..Len(execs.out.items) :
        String(execs.out.items[i]) = String(CollapsedInput(k)) }

\* the output is in strictly ascending order of String(), so no two entries
\* have the same string
SortedByStringStrictly ==
    \A i \in 1..(Len(execs.out.items) - 1) :
        PathLess(String(execs.out.items[i]), String(execs.out.items[i + 1]))

AgreeingInputsShareEntry ==
    ExecsAnalyzed =>
        /\ SortedByStringStrictly
        /\ \A k \in 1..Len(execs.in.items) : Cardinality(RepresentedBy(k)) = 1
        /\ \A j, k \in 1..Len(execs.in.items) :
               (CollapsedInput(j) = CollapsedInput(k))
                   => (RepresentedBy(j) = RepresentedBy(k))


----------------------------------------------------------------------------
(* CompareDynamic.  strings.Split(path, "/") is the sequence of segments    *)
(* the model keeps a path as.                                              *)

\* compareSegments(dynamic, regular) of the segments of the two paths
RECURSIVE compareSegments(_, _)
compareSegments(dynamic, regular) ==
    IF Len(dynamic) = 0 THEN Len(regular) = 0
    ELSE IF dynamic[1] = WildcardIdentifier
    THEN IF Len(dynamic) = 1 THEN TRUE
         ELSE LET nextDynamic == dynamic[2]
              IN  \E i \in 1..Len(regular) :
                      /\ \/ nextDynamic = DynamicIdentifier
                         \/ regular[i] = nextDynamic
                      /\ compareSegments(Tail(dynamic),
                                         SubSeq(regular, i, Len(regular)))
    ELSE IF Len(regular) = 0 THEN FALSE
    ELSE IF dynamic[1] = DynamicIdentifier \/ dynamic[1] = regular[1]
    THEN compareSegments(Tail(dynamic), Tail(regular))
    ELSE FALSE

CompareDynamic(dynamicPath, regularPath) ==
    compareSegments(dynamicPath, regularPath)

----------------------------------------------------------------------------
(* A caller of CompareDynamic                                              *)

MaxSegments == 4

\* the segments of a pattern: "", "a", "⋯" and "*"
PatternSegments == {"", "a", DynamicIdentifier, WildcardIdentifier}

\* the segments of a regular path: "", "a" and "b"
RegularSegments == {"", "a", "b"}

\* the strings of one to MaxSegments segments: "", "a", "/", "/a", "a/b", ...
StringsOf(segments) == UNION { ListsOf(segments, k) : k \in 1..MaxSegments }

\* result := CompareDynamic(dynamicPath, regularPath)
CallCompareDynamic(dynamicPath, regularPath) ==
    /\ ~compared.called
    /\ compared' = [ called      |-> TRUE,
                     dynamicPath |-> dynamicPath,
                     regularPath |-> regularPath,
                     result      |-> CompareDynamic(dynamicPath, regularPath) ]
    /\ ncalls' = ncalls + 1
    /\ UNCHANGED <<pm, last, seen, opens, shared, matchers, endpoints, execs, marked>>

NextCompare ==
    /\ ~compared.called
    /\ \E dynamicPath \in StringsOf(PatternSegments),
          regularPath \in StringsOf(RegularSegments) :
           CallCompareDynamic(dynamicPath, regularPath)

InitCompare == Fresh({NewPathAnalyzer(DefaultThreshold)})

SpecCompare == InitCompare /\ [][NextCompare]_vars

----------------------------------------------------------------------------
(* C31: the matching relation of CompareDynamic                            *)

\* the segments of the path can be matched by those of the pattern: ⋯
\* matches exactly one segment, * zero or more segments, every other segment
\* itself
RECURSIVE Matches(_, _)
Matches(pattern, path) ==
    IF pattern = <<>> THEN path = <<>>
    ELSE IF Head(pattern) = WildcardIdentifier
    THEN \E k \in 0..Len(path) :
             Matches(Tail(pattern), SubSeq(path, k + 1, Len(path)))
    ELSE /\ path # <<>>
         /\ Head(pattern) = DynamicIdentifier \/ Head(pattern) = Head(path)
         /\ Matches(Tail(pattern), Tail(path))

\* no * segment of the pattern is followed by another * segment
NoAdjacentWildcards(pattern) ==
    \A i \in 1..(Len(pattern) - 1) :
        ~(pattern[i] = WildcardIdentifier /\ pattern[i + 1] = WildcardIdentifier)

\* C31: CompareDynamic(pattern, path) is true exactly when the segments of
\* path can be matched by those of pattern, ⋯ matching exactly one segment,
\* * zero or more segments and every other segment only itself
C31_CompareDynamicMatching ==
    compared.called =>
        (compared.result <=> Matches(compared.dynamicPath, compared.regularPath))

\* the same for the patterns none of whose * segments follows another one
MatchingWithoutAdjacentWildcards ==
    (compared.called /\ NoAdjacentWildcards(compared.dynamicPath)) =>
        (compared.result <=> Matches(compared.dynamicPath, compared.regularPath))


----------------------------------------------------------------------------
(* C32: the second loop of AnalyzeOpens reads the collapsed trie           *)

\* the shape of the trie below the node: the child keys of every node
RECURSIVE ShapeOf(_)
ShapeOf(node) == [k \in DOMAIN node.Children |-> ShapeOf(node.Children[k])]

\* the shape of the tries of the analyzer
AnalyzerShape(a) ==
    [ root       |-> ShapeOf(a.root),
      identRoots |-> [i \in DOMAIN a.identRoots |-> ShapeOf(a.identRoots[i])] ]

\* C32: once the first loop of AnalyzeOpens has inserted every input path,
\* analyzing the same paths again in the second loop does not change the
\* shape of the trie (the child keys of every node)
C32_PassTwoKeepsTrieShape ==
    (opens.called /\ ~opens.in.isNil /\ ~opens.sbom.isNil) =>
        \A primed \in primeOpens(GivenAnalyzer, opens.in.items, 1) :
            \A g \in generalizeOpens(primed, opens.in.items, 1,
                                     opens.sbom.elems, EmptyChildren) :
                AnalyzerShape(g.pm) = AnalyzerShape(primed)


----------------------------------------------------------------------------
(* C33: at most one marker child                                           *)

\* no node of the trie has a ⋯ child together with another child
RECURSIVE DynamicAlone(_)
DynamicAlone(node) ==
    /\ HasChild(node, DynamicIdentifier)
          => DOMAIN node.Children = {DynamicIdentifier}
    /\ \A k \in DOMAIN node.Children : DynamicAlone(node.Children[k])

\* C33: at the end of every AddPath and AnalyzePath call no trie node has
\* both a ⋯ child and a * child, and no node has a ⋯ child together with
\* literal children: a ⋯ child is the only child of its node
C33_AtMostOneMarkerChild == \A t \in Tries(pm) : DynamicAlone(t)


----------------------------------------------------------------------------
(* C34: a wildcard consumes the rest of the path                           *)

\* the first node with a * child that an insertion of the segments comes
\* through, walking the children the trie has: [found, pos]
RECURSIVE WildcardOnWalk(_, _, _)
WildcardOnWalk(node, segments, pos) ==
    IF segments = <<>> THEN [found |-> FALSE, pos |-> <<>>]
    ELSE IF HasChild(node, WildcardIdentifier) THEN [found |-> TRUE, pos |-> pos]
    ELSE IF HasChild(node, DynamicIdentifier)
    THEN WildcardOnWalk(Child(node, DynamicIdentifier), Tail(segments),
                        Append(pos, DynamicIdentifier))
    ELSE IF HasChild(node, Head(segments))
    THEN WildcardOnWalk(Child(node, Head(segments)), Tail(segments),
                        Append(pos, Head(segments)))
    ELSE [found |-> FALSE, pos |-> <<>>]

\* the insertion the call makes comes through a node that has a * child
InsertsThroughWildcard(a, call) ==
    WildcardOnWalk(WrittenTrie(a, call), splitPath(call.path), <<>>)

\* once a node has a * child, an insertion of a path through that node
\* creates and removes no node of the trie, and at that node it changes
\* nothing but the Count of the * child, which it increments
LaterInsertionsOnlyCount ==
    [][ ( /\ ncalls' = ncalls + 1
          /\ InsertsThroughWildcard(pm, last').found )
        => LET pos == InsertsThroughWildcard(pm, last').pos
           IN  /\ ShapeOf(WrittenTrie(pm', last')) = ShapeOf(WrittenTrie(pm, last'))
               /\ NodeAt(WrittenTrie(pm', last'), pos).Children
                     = IncChild(NodeAt(WrittenTrie(pm, last'), pos),
                                WildcardIdentifier).Children
      ]_vars


\* no * child of the trie has a child
RECURSIVE WildcardsAreLeaves(_)
WildcardsAreLeaves(node) ==
    /\ HasChild(node, WildcardIdentifier)
          => Child(node, WildcardIdentifier).Children = EmptyChildren
    /\ \A k \in DOMAIN node.Children : WildcardsAreLeaves(node.Children[k])

\* C34: a wildcard consumes the rest of the path.  Once a node has a *
\* child, a later insertion of a path through that node changes nothing but
\* the Count of the * child, and no trie ever has a node beneath a * child
\* or beside it.
C34_WildcardConsumesRest ==
    /\ LaterInsertionsOnlyCount
    /\ [](\A t \in Tries(pm) : WildcardsAlone(t) /\ WildcardsAreLeaves(t))

\* no node is beneath a * child as long as no path with a ⋯ or * segment
\* has been inserted
WildcardsAreLeavesForLiteralInput ==
    (\A call \in seen : ~HasMarker(call.path))
        => \A t \in Tries(pm) : WildcardsAreLeaves(t)

----------------------------------------------------------------------------
(* C35: generalization is monotone over time                               *)

\* the positions of the nodes of the trie
RECURSIVE PositionsOf(_)
PositionsOf(node) ==
    {<<>>} \cup UNION { { <<k>> \o pos : pos \in PositionsOf(node.Children[k]) }
                        : k \in DOMAIN node.Children }

\* the marker child keys of the node
MarkerKeys(node) ==
    DOMAIN node.Children \cap {DynamicIdentifier, WildcardIdentifier}

\* every node of the trie before that the trie after still has keeps its
\* marker child keys
KeepsMarkerKeys(before, after) ==
    \A pos \in PositionsOf(before) \cap PositionsOf(after) :
        MarkerKeys(NodeAt(before, pos)) \subseteq MarkerKeys(NodeAt(after, pos))

\* every path AnalyzePath has returned with a marker is returned with a marker
\* by the next AnalyzePath of that path
MarkedStayMarked ==
    \A m \in marked :
        \A o \in AnalyzePath(pm, m.path, m.id) : HasMarker(o.result)

\* C35: generalization is monotone.  Once AnalyzePath(p) has returned a
\* result with a ⋯ or * segment, every later AnalyzePath(p) with the same
\* identifier returns a result with a marker, whatever is analyzed in between,
\* and a ⋯ or * child key once present at a node is never removed.
C35_MonotoneGeneralization ==
    /\ []MarkedStayMarked
    /\ [][ /\ KeepsMarkerKeys(pm.root, pm'.root)
           /\ \A i \in DOMAIN pm.identRoots :
                  KeepsMarkerKeys(pm.identRoots[i], pm'.identRoots[i]) ]_vars

\* a caller that analyzes the files of /b and a path that has b as its
\* second segment
MonotonePaths ==
    { Path(<<"b", "1">>), Path(<<"b", "2">>), Path(<<"b", "3">>),
      Path(<<"a", "b", "1">>) }

NextMonotone ==
    \E path \in MonotonePaths :
        ncalls < MaxCalls + 1 /\ CallAnalyzePath(path, "opens")

InitMonotone == Fresh({NewPathAnalyzer(2)})

SpecMonotone == InitMonotone /\ [][NextMonotone]_vars

\* the same as long as only paths below /b have been analyzed
MonotoneBelowInsertedPrefixes ==
    (\A call \in seen : FirstSegment(call.path) = "b") => MarkedStayMarked

----------------------------------------------------------------------------
(* C36: soundness of generalization                                        *)

\* the canonical form of the path: its non-empty segments behind a "/"
Canonical(path) ==
    IF splitPath(path) = <<>> THEN <<"", "">> ELSE Path(splitPath(path))

\* C36: soundness of generalization.  Whatever calls have been made on the
\* analyzer, the pattern AnalyzePath returns for a path of ordinary literal
\* segments matches the canonical form of the path under CompareDynamic.
C36_SoundGeneralization ==
    \A path \in Paths \cup ChildPaths \cup MonotonePaths, identifier \in Identifiers :
        Literal(path) =>
            \A o \in AnalyzePath(pm, path, identifier) :
                CompareDynamic(o.result, Canonical(path))

\* the same for the matching relation with * matching zero or more segments
SoundUnderMatching ==
    \A path \in Paths \cup ChildPaths \cup MonotonePaths, identifier \in Identifiers :
        Literal(path) =>
            \A o \in AnalyzePath(pm, path, identifier) :
                Matches(o.result, Canonical(path))

\* the same as long as no path with a marker segment has been inserted
SoundAfterLiteralCalls ==
    (\A call \in seen : ~HasMarker(call.path)) => C36_SoundGeneralization

----------------------------------------------------------------------------
(* C37: coverage of the inputs of AnalyzeOpens                             *)

\* the output has an entry whose Path is the path or matches it
Covered(path) ==
    \E j \in 1..Len(opens.out.items) :
        \/ opens.out.items[j].Path = path
        \/ CompareDynamic(opens.out.items[j].Path, path)

\* C37: coverage.  For every input OpenCall with a path of ordinary literal
\* segments, the output of AnalyzeOpens has an entry whose Path equals the
\* path or matches it under CompareDynamic.
C37_Coverage ==
    (opens.called /\ ~opens.in.isNil /\ ~opens.sbom.isNil) =>
        \A i \in 1..Len(opens.in.items) :
            Literal(opens.in.items[i].Path) => Covered(opens.in.items[i].Path)


----------------------------------------------------------------------------
(* C38: the flags of the entries of the output of AnalyzeOpens             *)

\* the input generalizes to the entry: an input in the SBOM set is kept
\* under its own path, any other under a Path that equals or matches its path
GeneralizesTo(input, entry) ==
    IF input.Path \in opens.sbom.elems THEN entry.Path = input.Path
    ELSE \/ entry.Path = input.Path
         \/ CompareDynamic(entry.Path, input.Path)

\* the flags of the inputs that generalize to the entry
FlagsOfInputsOf(entry) ==
    UNION { Range(opens.in.items[i].Flags) :
                i \in { k \in 1..Len(opens.in.items) :
                            GeneralizesTo(opens.in.items[k], entry) } }

\* C38: no flag is lost.  The Flags of each entry of the output of
\* AnalyzeOpens are exactly the union of the Flags of the inputs that
\* generalize to the Path of the entry.
C38_NoFlagLost ==
    (opens.called /\ ~opens.in.isNil /\ ~opens.sbom.isNil) =>
        \A j \in 1..Len(opens.out.items) :
            Range(opens.out.items[j].Flags) = FlagsOfInputsOf(opens.out.items[j])

\* the least the claim asks for: each flag of each input is among the Flags
\* of some entry the input generalizes to
EveryFlagKept ==
    (opens.called /\ ~opens.in.isNil /\ ~opens.sbom.isNil) =>
        \A i \in 1..Len(opens.in.items) :
            \A f \in Range(opens.in.items[i].Flags) :
                \E j \in 1..Len(opens.out.items) :
                    /\ GeneralizesTo(opens.in.items[i], opens.out.items[j])
                    /\ f \in Range(opens.out.items[j].Flags)

\* the same for the lists in which no path is repeated, no path has a marker
\* segment and no path is in the SBOM set
EveryFlagKeptOfDistinctLiterals ==
    (/\ \A i, k \in 1..Len(opens.in.items) :
            i # k => opens.in.items[i].Path # opens.in.items[k].Path
     /\ \A i \in 1..Len(opens.in.items) :
            /\ Literal(opens.in.items[i].Path)
            /\ opens.in.items[i].Path \notin opens.sbom.elems)
        => EveryFlagKept


----------------------------------------------------------------------------
(* C39: AnalyzeExecs applied to its own output                             *)

\* AnalyzeExecs with the same threshold applied to the output of the call
AnalyzedAgain == AnalyzeExecs(execs.out, execs.threshold).out

\* C39: idempotent deflation of execs.  AnalyzeExecs applied with the same
\* threshold to its own output returns that output unchanged.
C39_IdempotentDeflation ==
    ExecsAnalyzed => AnalyzedAgain = execs.out

\* the same for the outputs in which no argument is the marker
IdempotentWithoutMarker ==
    (\A j \in 1..Len(execs.out.items) :
         \A k \in 1..Len(execs.out.items[j].Args) :
             execs.out.items[j].Args[k] # DynamicArg)
        => C39_IdempotentDeflation

=============================================================================
